---- MODULE Spec2Model ----
(***************************************************************************)
(* Model of the job store (src/crawler/jobs_manager.py), the crawler       *)
(* orchestrator (src/crawler/main.py), the multi-source aggregator         *)
(* (src/crawler/multi_source_aggregator.py), the source adapters           *)
(* (src/crawler/*_api.py and the other search_* modules) and the scorer    *)
(* (src/matching/scorer.py) of crawler-cv.                                 *)
(*                                                                         *)
(* Python values are encoded as follows:                                   *)
(*   str            a TLA+ string, or the sequence of its characters       *)
(*                  where lower(), `in` or slicing act on it               *)
(*   float          in the scorer, the fraction <<numerator, denominator>> *)
(*   List[...]      a sequence                                             *)
(*   Optional[T]    None is <<>>, a present value v is <<v>>               *)
(* JSON values (the content of the store file) are tagged tuples:          *)
(*   <<"null">>, <<"string", s>>, <<"number", n>>, <<"array", seq>>        *)
(* and a JSON object is a function from its keys to JSON values.           *)
(***************************************************************************)
EXTENDS Integers, Sequences, FiniteSets, TLC

VARIABLES
    existing,       \* merge_jobs: argument `existing`
    new,            \* merge_jobs: argument `new`
    merged,         \* merge_jobs: returned list
    mpc,            \* merge_jobs: "call" before the call, "done" after it
    file,           \* content of the store file (JOBS_FILE, or the path under test)
    jobs,           \* save_jobs: argument `jobs`
    loaded,         \* load_jobs: what the call produced (a list, or an exception)
    rpc,            \* save/load round trip: "save", "load", "done"
    all_jobs,       \* run_crawler: the postings crawled by the last run
    existing_jobs,  \* run_crawler: the postings loaded by the last run
    new_count,      \* run_crawler: value returned by the last run
    outcome,        \* run_crawler: "none", "returned" or "raised" (last run)
    keywords,       \* search_all_sources: parameter / local `keywords`
    max_jobs_per_source, \* search_all_sources: parameter
    agg_jobs,       \* search_all_sources: local `all_jobs`, the returned list
    sources_status, \* search_all_sources: local dict, source name -> status
    apc,            \* search_all_sources: the block about to run
    calls,          \* per source adapter: the arguments of each call made to it
    returns,        \* per source adapter: what its call produced
    adapter,        \* source adapter under call: the function's name
    adapter_keywords, \* source adapter: argument `keywords` (`skills`)
    max_results,    \* source adapter: argument `max_results` (`max_jobs`)
    provider,       \* what the provider answers to each request of the call
    found,          \* source adapter: what the call produced
    spc,            \* source adapter: "call" before the call, "done" after it
    profile,        \* score_job: argument `profile`
    scored_job,     \* score_job: argument `job`
    skill_overlap,  \* score_job: local `skill_overlap`
    senioridade_score, \* score_job: local `senioridade_score`
    semantic_score, \* score_job: local `semantic_score`
    match,          \* score_job: the Match returned
    other_skills,   \* skills of a second profile, otherwise equal to `profile`
    other_match,    \* score_job: the Match returned for the second profile
    scpc,           \* score_job: "score" before the call, "done" after it
    analysis,       \* main: what analyze_resume_with_groq produced (a profile, or an exception)
    cli_jobs,       \* main: local `jobs`, what load_jobs produced
    min_score,      \* main: option --min-score
    matches,        \* main: local `matches`
    high_matches,   \* main: local `high_matches`
    report_matches, \* generate_html_report: argument `matches` of the call made, if any
    printed_count,  \* main: the match count printed, if any
    exit_code,      \* main: exit status of the process
    clipc,          \* main: "run" before the run, "done" after it
    never_answers,  \* the endpoints that never answer a request of this run
    feed_index,     \* search_rss_feeds: position of the loop over TECH_FEEDS
    rss_jobs,       \* search_rss_feeds: local `jobs`
    model_response, \* analyze_resume_with_groq: what the chat completion produced (a text, or an exception)
    json_str,       \* analyze_resume_with_groq: what _extract_json_from_response produced
    analyzed,       \* analyze_resume_with_groq: what the call produced (a profile, or an exception)
    anpc,           \* analyze_resume_with_groq: "call" before the call, "done" after it
    parser,         \* the function that builds a posting: its adapter, or extract_job_postings
    item_title,     \* the title the provider gives
    item_text,      \* the description (summary) the provider gives
    built_job,      \* the JobPosting built, if any
    ppc,            \* "parse" before the posting is built, "done" after it
    detector,       \* _detect_senioridade: the module whose function is called
    detect_text,    \* _detect_senioridade: argument `text`
    detected,       \* _detect_senioridade: the value returned
    dpc,            \* _detect_senioridade: "call" before the call, "done" after it
    companies,      \* run_crawler: local `companies`, what parse_remote_jobs_brazil_repo returned
    web,            \* what each careers page that answers serves during the run
    company_jobs,   \* run_crawler: what crawl_company returned for each company
    cpc             \* run_crawler: "crawl" before the run, "done" after it

mergeVars == <<existing, new, merged, mpc>>

roundTripVars == <<jobs, loaded, rpc>>

crawlerVars == <<all_jobs, existing_jobs, new_count, outcome>>

aggVars == <<keywords, max_jobs_per_source, agg_jobs, sources_status, apc,
             calls, returns>>

adapterVars == <<adapter, adapter_keywords, max_results, provider, found, spc>>

scorerVars == <<profile, scored_job, skill_overlap, senioridade_score,
                semantic_score, match, other_skills, other_match, scpc>>

\* Variables of the later specifications
cliVars == <<analysis, cli_jobs, min_score, matches, high_matches, report_matches, printed_count, exit_code, clipc>>

waitVars == <<never_answers, feed_index, rss_jobs>>

analyzerVars == <<model_response, json_str, analyzed, anpc>>

parseVars == <<parser, item_title, item_text, built_job, ppc>>

detectVars == <<detector, detect_text, detected, dpc>>

crawlVars == <<companies, web, company_jobs, cpc>>

restVars == <<cliVars, waitVars, analyzerVars, parseVars, detectVars, crawlVars>>

vars == <<existing, new, merged, mpc, file, jobs, loaded, rpc,
          all_jobs, existing_jobs, new_count, outcome,
          keywords, max_jobs_per_source, agg_jobs, sources_status, apc,
          calls, returns,
          adapter, adapter_keywords, max_results, provider, found, spc,
          profile, scored_job, skill_overlap, senioridade_score, semantic_score,
          match, other_skills, other_match, scpc, restVars>>

----------------------------------------------------------------------------
(* Bounds of the model *)

MaxExisting == 2    \* longest list handed to merge_jobs as `existing`

MaxNew == 3         \* longest list handed to merge_jobs as `new`

MaxSaved == 2       \* longest list handed to save_jobs in the round trip

MaxItems == 2       \* most items in the provider's answers to one adapter call

MaxCap == 2         \* largest result cap handed to a source adapter

MaxSkills == 2      \* longest drawn skill list of a profile or of a posting

MaxJobs == 3        \* most postings in the store the CLI loads

MaxResponse == 6    \* longest drawn run of braces and text in a model response

MaxStored == 2      \* most records in the store file before the first crawler run

MaxBatch == 1       \* most postings one crawler run fetches

MaxOut == 1         \* most postings one source adapter returns

----------------------------------------------------------------------------
(* src/types.py: JobPosting *)

None == <<>>

Some(v) == <<v>>

JobIds == {"test-1", "test-2"}

JobLinks == {"https://test.com/job/1", "https://test.com/job/2", "https://test.com/job/3"}

\* A JobPosting with the given id and link. The posting "test-1" leaves every
\* optional field at None / "" (the fixture of tests/crawler/test_jobs_manager.py),
\* the posting "test-2" sets all of them.
JobPosting(id, link) ==
    IF id = "test-1"
    THEN [id |-> id, empresa |-> "Test Corp", titulo |-> "Backend Developer",
          descricao |-> "Python developer needed", requisitos |-> "Python, AWS",
          skills_detectadas |-> <<"Python", "AWS">>, senioridade |-> None,
          localizacao |-> "Remoto - Brasil", link |-> link,
          data_coleta |-> "2026-02-22", ats |-> None, url_empresa |-> "",
          salario_min |-> None, salario_max |-> None]
    ELSE [id |-> id, empresa |-> "Test Corp 2", titulo |-> "Frontend Developer",
          descricao |-> "React developer", requisitos |-> "React, TypeScript",
          skills_detectadas |-> <<"React">>, senioridade |-> Some("Junior"),
          localizacao |-> "Remoto", link |-> link,
          data_coleta |-> "2026-02-23", ats |-> Some("Gupy"),
          url_empresa |-> "https://test.com", salario_min |-> Some(1000),
          salario_max |-> Some(2000)]

JobPostings == {JobPosting(id, link) : id \in JobIds, link \in JobLinks}

\* Lists of at most n postings
JobLists(n) == UNION {[1..k -> JobPostings] : k \in 0..n}

----------------------------------------------------------------------------
(* src/crawler/jobs_manager.py: merge_jobs *)

\* {job.link for job in jobs}
LinksOf(list) == {list[i].link : i \in 1..Len(list)}

\* The loop `for job in new`, from its i-th iteration on, with the list
\* `merged` and the set `existing_links` built so far.
RECURSIVE merge_loop(_, _, _, _)
merge_loop(acc, existing_links, incoming, i) ==
    IF i > Len(incoming) THEN acc
    ELSE IF incoming[i].link \notin existing_links
         THEN merge_loop(Append(acc, incoming[i]),
                         existing_links \cup {incoming[i].link}, incoming, i + 1)
         ELSE merge_loop(acc, existing_links, incoming, i + 1)

\* merge_jobs without `existing_links.add(job.link)`: admission is decided
\* against the links of `existing` alone.
merge_jobs_untracked(old, incoming) ==
    old \o SelectSeq(incoming, LAMBDA job : job.link \notin LinksOf(old))

\* merge_jobs keyed on `id` instead of `link`.
RECURSIVE merge_loop_by_id(_, _, _, _)
merge_loop_by_id(acc, ids, incoming, i) ==
    IF i > Len(incoming) THEN acc
    ELSE IF incoming[i].id \notin ids
         THEN merge_loop_by_id(Append(acc, incoming[i]),
                               ids \cup {incoming[i].id}, incoming, i + 1)
         ELSE merge_loop_by_id(acc, ids, incoming, i + 1)

merge_jobs_by_id(old, incoming) ==
    merge_loop_by_id(old, {old[i].id : i \in 1..Len(old)}, incoming, 1)

\* merge_jobs with `merged.insert(0, job)` instead of `merged.append(job)`.
RECURSIVE merge_loop_front(_, _, _, _)
merge_loop_front(acc, existing_links, incoming, i) ==
    IF i > Len(incoming) THEN acc
    ELSE IF incoming[i].link \notin existing_links
         THEN merge_loop_front(<<incoming[i]>> \o acc,
                               existing_links \cup {incoming[i].link}, incoming, i + 1)
         ELSE merge_loop_front(acc, existing_links, incoming, i + 1)

merge_jobs_front(old, incoming) == merge_loop_front(old, LinksOf(old), incoming, 1)

\* merge_jobs that also removes the repeated links of `existing`.
merge_jobs_dedup_all(old, incoming) == merge_loop(<<>>, {}, old \o incoming, 1)

merge_jobs(old, incoming) == merge_loop(old, LinksOf(old), incoming, 1)

----------------------------------------------------------------------------
(* JSON documents and the store file *)

JNull == <<"null">>

JString(str) == <<"string", str>>

JNumber(n) == <<"number", n>>

JArray(seq) == <<"array", seq>>

JObject(dict) == <<"object", dict>>

\* The file does not exist
NoFile == <<"absent">>

\* The file holds text that json.load cannot parse
Unparseable == <<"text">>

\* The file holds the JSON document doc
JsonFile(doc) == <<"json", doc>>

\* What a call produced: a returned value, or a raised exception
Returned(v) == <<"returned", v>>

Raised(exc) == <<"raised", exc>>

----------------------------------------------------------------------------
(* src/crawler/jobs_manager.py: save_jobs *)

\* json.dump of a value of type Optional[str]
dump_optional_str(v) == IF v = None THEN JNull ELSE JString(v[1])

\* json.dump of a value of type Optional[float]
dump_optional_number(v) == IF v = None THEN JNull ELSE JNumber(v[1])

\* json.dump of a value of type List[str]
dump_str_list(v) == JArray([i \in 1..Len(v) |-> JString(v[i])])

\* The dict save_jobs builds for one posting, without its "ats" entry.
job_to_dict_without_ats(job) ==
    [id                |-> JString(job.id),
     empresa           |-> JString(job.empresa),
     titulo            |-> JString(job.titulo),
     descricao         |-> JString(job.descricao),
     requisitos        |-> JString(job.requisitos),
     skills_detectadas |-> dump_str_list(job.skills_detectadas),
     senioridade       |-> dump_optional_str(job.senioridade),
     localizacao       |-> JString(job.localizacao),
     link              |-> JString(job.link),
     data_coleta       |-> JString(job.data_coleta),
     url_empresa       |-> JString(job.url_empresa),
     salario_min       |-> dump_optional_number(job.salario_min),
     salario_max       |-> dump_optional_number(job.salario_max)]

\* The dict save_jobs builds for one posting, as json.dump writes it
job_to_dict(job) ==
    [id                |-> JString(job.id),
     empresa           |-> JString(job.empresa),
     titulo            |-> JString(job.titulo),
     descricao         |-> JString(job.descricao),
     requisitos        |-> JString(job.requisitos),
     skills_detectadas |-> dump_str_list(job.skills_detectadas),
     senioridade       |-> dump_optional_str(job.senioridade),
     localizacao       |-> JString(job.localizacao),
     link              |-> JString(job.link),
     data_coleta       |-> JString(job.data_coleta),
     ats               |-> dump_optional_str(job.ats),
     url_empresa       |-> JString(job.url_empresa),
     salario_min       |-> dump_optional_number(job.salario_min),
     salario_max       |-> dump_optional_number(job.salario_max)]

\* The content of the file after save_jobs(list, filepath)
save_jobs(list) ==
    JsonFile(JArray([i \in 1..Len(list) |-> JObject(job_to_dict(list[i]))]))

----------------------------------------------------------------------------
(* src/crawler/jobs_manager.py: load_jobs *)

\* json.load of a JSON string
load_str(j) == j[2]

\* json.load of a JSON array of strings
load_str_list(j) == [i \in 1..Len(j[2]) |-> j[2][i][2]]

\* json.load of null or a JSON string / number
load_optional(j) == IF j = JNull THEN None ELSE Some(j[2])

\* dict.get(key): the entry, or None when the key is missing
get_optional(dict, key) ==
    IF key \in DOMAIN dict THEN load_optional(dict[key]) ELSE None

\* dict.get(key, default) for a string entry
get_str(dict, key, default) ==
    IF key \in DOMAIN dict THEN load_str(dict[key]) ELSE default

\* The keys load_jobs reads with job["..."], which raises KeyError when missing
SubscriptedKeys ==
    {"id", "empresa", "titulo", "descricao", "requisitos", "skills_detectadas",
     "localizacao", "link", "data_coleta"}

\* The keys load_jobs reads with job.get(...)
GetKeys == {"senioridade", "ats", "url_empresa", "salario_min", "salario_max"}

\* JobPosting(...) built from one element of jobs_data: the posting, or the
\* exception the subscripts raise
job_from_item(item) ==
    IF item[1] # "object" THEN Raised("TypeError")
    ELSE LET job == item[2] IN
         IF ~(SubscriptedKeys \subseteq DOMAIN job) THEN Raised("KeyError")
         ELSE Returned(
            [id                |-> load_str(job["id"]),
             empresa           |-> load_str(job["empresa"]),
             titulo            |-> load_str(job["titulo"]),
             descricao         |-> load_str(job["descricao"]),
             requisitos        |-> load_str(job["requisitos"]),
             skills_detectadas |-> load_str_list(job["skills_detectadas"]),
             senioridade       |-> get_optional(job, "senioridade"),
             localizacao       |-> load_str(job["localizacao"]),
             link              |-> load_str(job["link"]),
             data_coleta       |-> load_str(job["data_coleta"]),
             ats               |-> get_optional(job, "ats"),
             url_empresa       |-> get_str(job, "url_empresa", ""),
             salario_min       |-> get_optional(job, "salario_min"),
             salario_max       |-> get_optional(job, "salario_max")])

\* The list comprehension over jobs_data, from its i-th element on, with the
\* postings built so far: the exception of the first element that raises, else
\* the list of postings
RECURSIVE build_jobs(_, _, _), build_next(_, _, _, _)
build_jobs(items, i, built) ==
    IF i > Len(items) THEN Returned(built)
    ELSE build_next(items, i, built, job_from_item(items[i]))

build_next(items, i, built, job) ==
    IF job[1] = "raised" THEN job
    ELSE build_jobs(items, i + 1, Append(built, job[2]))

jobs_from_items(items) == build_jobs(items, 1, <<>>)

\* load_jobs that skips the records it cannot build instead of raising
RECURSIVE skip_bad_items(_, _)
skip_bad_items(items, i) ==
    IF i > Len(items) THEN <<>>
    ELSE LET r == job_from_item(items[i]) IN
         (IF r[1] = "returned" THEN <<r[2]>> ELSE <<>>) \o skip_bad_items(items, i + 1)

load_jobs_lenient(content) ==
    IF content = NoFile \/ content = Unparseable THEN Returned(<<>>)
    ELSE LET jobs_data == content[2] IN
         IF jobs_data[1] = "array" THEN Returned(skip_bad_items(jobs_data[2], 1))
         ELSE Returned(<<>>)

\* load_jobs(filepath) on a file with the given content
load_jobs(content) ==
    IF content = NoFile THEN Returned(<<>>)
    ELSE IF content = Unparseable THEN Raised("JSONDecodeError")
    ELSE LET jobs_data == content[2] IN
         IF jobs_data[1] = "array" THEN jobs_from_items(jobs_data[2])
         ELSE IF jobs_data[1] = "object"
              \* iterating a dict yields its keys, and subscripting a key
              \* with "id" raises
              THEN IF DOMAIN jobs_data[2] = {} THEN Returned(<<>>)
                   ELSE Raised("TypeError")
         ELSE Raised("TypeError")

----------------------------------------------------------------------------
(* save_jobs followed by load_jobs on the same path, for every bounded list *)

IdleMerge == existing = <<>> /\ new = <<>> /\ merged = <<>> /\ mpc = "idle"

IdleRoundTrip == jobs = <<>> /\ loaded = <<"none">> /\ rpc = "idle"

IdleCrawler ==
    all_jobs = <<>> /\ existing_jobs = <<>> /\ new_count = 0 /\ outcome = "none"

IdleAggregator ==
    /\ keywords = <<>> /\ max_jobs_per_source = 0 /\ agg_jobs = <<>>
    /\ sources_status = <<>> /\ apc = "idle" /\ calls = <<>> /\ returns = <<>>

IdleScorer ==
    /\ profile = <<>> /\ scored_job = <<>> /\ skill_overlap = <<>>
    /\ senioridade_score = <<>> /\ semantic_score = <<>> /\ match = <<>>
    /\ other_skills = <<>> /\ other_match = <<>> /\ scpc = "idle"

IdleAdapter ==
    /\ adapter = "" /\ adapter_keywords = <<>> /\ max_results = 0
    /\ provider = <<>> /\ found = <<"none">> /\ spc = "idle"

\* The later specifications at rest
IdleCli ==
    /\ analysis = <<"none">> /\ cli_jobs = <<>> /\ min_score = <<>>
    /\ matches = <<>> /\ high_matches = <<>> /\ report_matches = None
    /\ printed_count = None /\ exit_code = None /\ clipc = "idle"

IdleWait ==
    never_answers = {} /\ feed_index = 0 /\ rss_jobs = <<>>

IdleAnalyzer ==
    /\ model_response = <<"none">> /\ json_str = <<"none">>
    /\ analyzed = <<"none">> /\ anpc = "idle"

IdleParse ==
    /\ parser = "" /\ item_title = <<>> /\ item_text = <<>>
    /\ built_job = None /\ ppc = "idle"

IdleDetect ==
    detector = "" /\ detect_text = <<>> /\ detected = None /\ dpc = "idle"

IdleCrawl ==
    companies = <<>> /\ web = <<>> /\ company_jobs = <<>> /\ cpc = "idle"

IdleRest == IdleCli /\ IdleWait /\ IdleAnalyzer /\ IdleParse /\ IdleDetect /\ IdleCrawl

\* What a later specification leaves at rest, and the variables it leaves alone
IdleBesidesCli ==
    /\ file = NoFile
    /\ IdleMerge
    /\ IdleRoundTrip
    /\ IdleCrawler
    /\ IdleAggregator
    /\ IdleAdapter
    /\ IdleScorer
    /\ IdleWait
    /\ IdleAnalyzer
    /\ IdleParse
    /\ IdleDetect
    /\ IdleCrawl

varsBesidesCli ==
    <<file, mergeVars, roundTripVars, crawlerVars, aggVars,
      adapterVars, scorerVars, waitVars, analyzerVars,
      parseVars, detectVars, crawlVars>>

IdleBesidesWait ==
    /\ file = NoFile
    /\ IdleMerge
    /\ IdleRoundTrip
    /\ IdleCrawler
    /\ IdleAdapter
    /\ IdleScorer
    /\ IdleCli
    /\ IdleAnalyzer
    /\ IdleParse
    /\ IdleDetect
    /\ IdleCrawl

varsBesidesWait ==
    <<file, mergeVars, roundTripVars, crawlerVars,
      adapterVars, scorerVars, cliVars, analyzerVars,
      parseVars, detectVars, crawlVars>>

IdleBesidesAnalyzer ==
    /\ file = NoFile
    /\ IdleMerge
    /\ IdleRoundTrip
    /\ IdleCrawler
    /\ IdleAggregator
    /\ IdleAdapter
    /\ IdleScorer
    /\ IdleCli
    /\ IdleWait
    /\ IdleParse
    /\ IdleDetect
    /\ IdleCrawl

varsBesidesAnalyzer ==
    <<file, mergeVars, roundTripVars, crawlerVars, aggVars,
      adapterVars, scorerVars, cliVars, waitVars, parseVars,
      detectVars, crawlVars>>

IdleBesidesParse ==
    /\ file = NoFile
    /\ IdleMerge
    /\ IdleRoundTrip
    /\ IdleCrawler
    /\ IdleAggregator
    /\ IdleAdapter
    /\ IdleScorer
    /\ IdleCli
    /\ IdleWait
    /\ IdleAnalyzer
    /\ IdleDetect
    /\ IdleCrawl

varsBesidesParse ==
    <<file, mergeVars, roundTripVars, crawlerVars, aggVars,
      adapterVars, scorerVars, cliVars, waitVars,
      analyzerVars, detectVars, crawlVars>>

IdleBesidesDetect ==
    /\ file = NoFile
    /\ IdleMerge
    /\ IdleRoundTrip
    /\ IdleCrawler
    /\ IdleAggregator
    /\ IdleAdapter
    /\ IdleScorer
    /\ IdleCli
    /\ IdleWait
    /\ IdleAnalyzer
    /\ IdleParse
    /\ IdleCrawl

varsBesidesDetect ==
    <<file, mergeVars, roundTripVars, crawlerVars, aggVars,
      adapterVars, scorerVars, cliVars, waitVars,
      analyzerVars, parseVars, crawlVars>>

IdleBesidesCrawl ==
    /\ IdleMerge
    /\ IdleRoundTrip
    /\ IdleAggregator
    /\ IdleAdapter
    /\ IdleScorer
    /\ IdleCli
    /\ IdleWait
    /\ IdleAnalyzer
    /\ IdleParse
    /\ IdleDetect

varsBesidesCrawl ==
    <<mergeVars, roundTripVars, aggVars, adapterVars,
      scorerVars, cliVars, waitVars, analyzerVars, parseVars,
      detectVars>>

InitRoundTrip ==
    /\ jobs \in JobLists(MaxSaved)
    /\ file = NoFile
    /\ loaded = <<"none">>
    /\ rpc = "save"
    /\ IdleMerge
    /\ IdleCrawler
    /\ IdleScorer
    /\ IdleAdapter
    /\ IdleAggregator
    /\ IdleRest

SaveJobs ==
    /\ rpc = "save"
    /\ file' = save_jobs(jobs)
    /\ rpc' = "load"
    /\ UNCHANGED <<jobs, loaded, mergeVars, crawlerVars, aggVars, adapterVars, scorerVars, restVars>>

LoadJobs ==
    /\ rpc = "load"
    /\ loaded' = load_jobs(file)
    /\ rpc' = "done"
    /\ UNCHANGED <<jobs, file, mergeVars, crawlerVars, aggVars, adapterVars, scorerVars, restVars>>

NextRoundTrip == SaveJobs \/ LoadJobs

SpecRoundTrip == InitRoundTrip /\ [][NextRoundTrip]_vars

----------------------------------------------------------------------------
(* src/crawler/main.py: run_crawler, run repeatedly against one store file *)

\* Links of the pages the crawled companies serve
CrawledLinks == {"https://test.com/job/1", "https://test.com/job/2"}

CrawledPostings == {JobPosting(id, link) : id \in JobIds, link \in CrawledLinks}

CrawledLists(n) == UNION {[1..k -> CrawledPostings] : k \in 0..n}

\* dict without one of its keys
WithoutKey(dict, key) == [k \in (DOMAIN dict) \ {key} |-> dict[k]]

\* The file save_jobs(list) writes, with `key` removed from its i-th record
SavedLackingKey(list, i, key) ==
    JsonFile(JArray([n \in 1..Len(list) |->
        JObject(IF n = i THEN WithoutKey(job_to_dict(list[n]), key)
                ELSE job_to_dict(list[n]))]))

\* The store file a run may find: none, unparseable text, the document {},
\* a file save_jobs wrote, or such a file with one key missing in one record
StoreFiles ==
    {NoFile, Unparseable, JsonFile(JObject(<<>>))}
    \cup {save_jobs(list) : list \in CrawledLists(MaxStored)}
    \cup UNION {{SavedLackingKey(list, i, key) :
                    i \in 1..Len(list), key \in SubscriptedKeys \cup GetKeys} :
                list \in CrawledLists(MaxStored)}

\* Step 4 of run_crawler and its return: the file, the locals and the outcome
\* after the run
run_crawler_save(crawled, loaded_jobs, merged_jobs) ==
    [file          |-> save_jobs(merged_jobs),
     all_jobs      |-> crawled,
     existing_jobs |-> loaded_jobs,
     new_count     |-> Len(merged_jobs) - Len(loaded_jobs),
     outcome       |-> "returned"]

\* Step 3 of run_crawler, after load_jobs produced `got`: its exception leaves
\* run_crawler before merge_jobs and save_jobs
run_crawler_merge(content, crawled, got) ==
    IF got[1] = "raised"
    THEN [file |-> content, all_jobs |-> <<>>, existing_jobs |-> <<>>,
          new_count |-> 0, outcome |-> "raised"]
    ELSE run_crawler_save(crawled, got[2], merge_jobs(got[2], crawled))

\* run_crawler that saves all_jobs instead of merged_jobs.
run_crawler_overwrite(content, crawled) ==
    IF load_jobs(content)[1] = "raised"
    THEN run_crawler_merge(content, crawled, load_jobs(content))
    ELSE run_crawler_save(crawled, load_jobs(content)[2], crawled)

\* One run of run_crawler whose crawl loop left `crawled` in all_jobs, on a
\* store file with the given content
run_crawler(content, crawled) ==
    run_crawler_merge(content, crawled, load_jobs(content))

InitStore ==
    /\ file \in StoreFiles
    /\ IdleMerge
    /\ IdleRoundTrip
    /\ IdleCrawler
    /\ IdleScorer
    /\ IdleAdapter
    /\ IdleAggregator
    /\ IdleRest

\* parse_remote_jobs_brazil_repo raises (no network, no cache): the run ends
\* before any posting is crawled or the store is read
RunCrawlerNoCompanies ==
    /\ outcome' = "raised"
    /\ all_jobs' = <<>>
    /\ existing_jobs' = <<>>
    /\ new_count' = 0
    /\ UNCHANGED <<file, mergeVars, roundTripVars, aggVars, adapterVars, scorerVars, restVars>>

\* A run whose crawl loop collected `crawled` (a company that raises adds nothing)
RunCrawler(crawled) ==
    \E after \in {run_crawler(file, crawled)} :
    /\ file' = after.file
    /\ all_jobs' = after.all_jobs
    /\ existing_jobs' = after.existing_jobs
    /\ new_count' = after.new_count
    /\ outcome' = after.outcome
    /\ UNCHANGED <<mergeVars, roundTripVars, aggVars, adapterVars, scorerVars, restVars>>

NextStore ==
    \/ RunCrawlerNoCompanies
    \/ \E crawled \in CrawledLists(MaxBatch) : RunCrawler(crawled)

SpecStore == InitStore /\ [][NextStore]_vars

----------------------------------------------------------------------------
(* merge_jobs applied to every pair of bounded lists *)

InitMerge ==
    /\ existing \in JobLists(MaxExisting)
    /\ new \in JobLists(MaxNew)
    /\ merged = <<>>
    /\ mpc = "call"
    /\ file = NoFile
    /\ IdleRoundTrip
    /\ IdleCrawler
    /\ IdleScorer
    /\ IdleAdapter
    /\ IdleAggregator
    /\ IdleRest

Merge ==
    /\ mpc = "call"
    /\ merged' = merge_jobs(existing, new)
    /\ mpc' = "done"
    /\ UNCHANGED <<existing, new, file, roundTripVars, crawlerVars, aggVars, adapterVars, scorerVars, restVars>>

NextMerge == Merge

SpecMerge == InitMerge /\ [][NextMerge]_vars

----------------------------------------------------------------------------
(* src/crawler/multi_source_aggregator.py: search_all_sources *)

\* The keywords used when the caller passes none
DefaultKeywords ==
    <<"Python", "SQL", "Airflow", "PySpark", "Databricks", "Data Engineer",
      "Data Science", "Machine Learning", "Backend", "Full Stack">>

DefaultMaxJobsPerSource == 50

\* The source blocks, in the order the function runs them
SourceOrder == <<"RemoteOK", "InfoJobs", "RSS Feeds", "GetNinja">>

Sources == {SourceOrder[i] : i \in 1..Len(SourceOrder)}

\* Keyword lists a caller passes: none (None or []), or a list of its own
KeywordArgs == {<<>>, <<"Python", "SQL">>}

\* Caps a caller passes
CapArgs == {0, DefaultMaxJobsPerSource}

\* Postings the providers serve: two of them share a link
AdapterPostings ==
    {JobPosting("test-1", "https://test.com/job/1"),
     JobPosting("test-2", "https://test.com/job/1"),
     JobPosting("test-2", "https://test.com/job/2")}

\* What a call of a source adapter can produce: an exception, or a list
AdapterResults ==
    {Raised("Exception")}
    \cup {Returned(list) : list \in UNION {[1..k -> AdapterPostings] : k \in 0..MaxOut}}

\* The arguments a source block passes to its adapter
source_args(name, kw, cap) == <<kw, cap>>

\* all_jobs after a source block whose adapter call produced `result`, when the
\* block drops the postings whose link all_jobs already has.
extend_all_jobs_dedup(list, result) ==
    IF result[1] = "raised" THEN list ELSE merge_jobs(list, result[2])

\* all_jobs after a source block whose adapter call produced `result`:
\* all_jobs.extend(...) in the try, nothing in the except
extend_all_jobs(list, result) ==
    IF result[1] = "raised" THEN list ELSE list \o result[2]

\* sources_status[name] after the block
status_after(result) ==
    IF result[1] = "raised" THEN <<"failed">> ELSE <<"ok", Len(result[2])>>

\* Where control goes after a source block without its `except Exception`.
after_source_unguarded(result, following) ==
    IF result[1] = "raised" THEN "raised" ELSE following

\* Where control goes after a source block: `except Exception` swallows the
\* exception, so on to the following block either way
after_source(result, following) == following

\* One `try: ... except Exception: ...` block of search_all_sources
TrySource(name, result, following) ==
    /\ calls' = [calls EXCEPT ![name] =
                    Append(@, source_args(name, keywords, max_jobs_per_source))]
    /\ returns' = [returns EXCEPT ![name] = result]
    /\ agg_jobs' = extend_all_jobs(agg_jobs, result)
    /\ sources_status' = (name :> status_after(result)) @@ sources_status
    /\ apc' = after_source(result, following)
    /\ UNCHANGED <<keywords, max_jobs_per_source, file, mergeVars, roundTripVars,
                   crawlerVars,
                   adapterVars, scorerVars, restVars>>

InitAggregator ==
    /\ keywords \in KeywordArgs
    /\ max_jobs_per_source \in CapArgs
    /\ agg_jobs = <<>>
    /\ sources_status = <<>>
    /\ apc = "start"
    /\ calls = [name \in Sources |-> <<>>]
    /\ returns = [name \in Sources |-> <<"none">>]
    /\ file = NoFile
    /\ IdleMerge
    /\ IdleRoundTrip
    /\ IdleCrawler
    /\ IdleScorer
    /\ IdleAdapter
    /\ IdleRest

\* if not keywords: keywords = [...]; all_jobs = []; sources_status = {}
Start ==
    /\ apc = "start"
    /\ keywords' = IF keywords = <<>> THEN DefaultKeywords ELSE keywords
    /\ agg_jobs' = <<>>
    /\ sources_status' = <<>>
    /\ apc' = "RemoteOK"
    /\ UNCHANGED <<max_jobs_per_source, calls, returns, file, mergeVars,
                   roundTripVars, crawlerVars,
                   adapterVars, scorerVars, restVars>>

SearchRemoteOK ==
    /\ apc = "RemoteOK"
    /\ \E result \in AdapterResults : TrySource("RemoteOK", result, "InfoJobs")

SearchInfoJobs ==
    /\ apc = "InfoJobs"
    /\ \E result \in AdapterResults : TrySource("InfoJobs", result, "RSS Feeds")

SearchRSSFeeds ==
    /\ apc = "RSS Feeds"
    /\ \E result \in AdapterResults : TrySource("RSS Feeds", result, "GetNinja")

SearchGetNinja ==
    /\ apc = "GetNinja"
    /\ \E result \in AdapterResults : TrySource("GetNinja", result, "summary")

\* The summary log and `return all_jobs`
Summary ==
    /\ apc = "summary"
    /\ apc' = "done"
    /\ UNCHANGED <<keywords, max_jobs_per_source, agg_jobs, sources_status, calls,
                   returns, file, mergeVars, roundTripVars, crawlerVars,
                   adapterVars, scorerVars, restVars>>

NextAggregator ==
    \/ Start
    \/ SearchRemoteOK
    \/ SearchInfoJobs
    \/ SearchRSSFeeds
    \/ SearchGetNinja
    \/ Summary

SpecAggregator == InitAggregator /\ [][NextAggregator]_vars

----------------------------------------------------------------------------
(* Properties of merge_jobs *)

IsPrefix(s, t) == Len(s) <= Len(t) /\ SubSeq(t, 1, Len(s)) = s

\* The elements of s at the positions in idx, in the order of s, from position i on
RECURSIVE SubSeqAt(_, _, _)
SubSeqAt(s, idx, i) ==
    IF i > Len(s) THEN <<>>
    ELSE (IF i \in idx THEN <<s[i]>> ELSE <<>>) \o SubSeqAt(s, idx, i + 1)

\* s is t with some elements left out
IsSubsequence(s, t) ==
    \E idx \in SUBSET (1..Len(t)) : s = SubSeqAt(t, idx, 1)

NoDuplicateLinks(list) ==
    \A i, j \in 1..Len(list) : list[i].link = list[j].link => i = j

\* Positions of `new` whose link does not occur in `existing`
AbsentFromExisting == {i \in 1..Len(new) : new[i].link \notin LinksOf(existing)}

\* ... and does not occur earlier in `new` either
FirstOfLink == {i \in AbsentFromExisting : \A j \in 1..(i - 1) : new[j].link # new[i].link}

\* C1 (as stated): merge_jobs(existing, new) is existing followed by exactly the
\* elements of new whose link does not occur among the links of existing.
C1_AdmitsAllAbsentFromExisting ==
    mpc = "done" => merged = existing \o SubSeqAt(new, AbsentFromExisting, 1)

\* C1 (amended): merge_jobs(existing, new) is existing followed by exactly the
\* elements of new whose link occurs neither among the links of existing nor on
\* an earlier element of new.
C1_AdmitsFirstOfEachAbsentLink ==
    mpc = "done" => merged = existing \o SubSeqAt(new, FirstOfLink, 1)

\* Two incoming postings share a link that existing does not have, and only the
\* first of them was admitted.
C1_Witness ==
    /\ mpc = "done"
    /\ \E i, j \in AbsentFromExisting : i < j /\ new[i].link = new[j].link
    /\ Len(merged) < Len(existing) + Cardinality(AbsentFromExisting)

\* C2: a link of existing occurs in the merged list only on the postings that came
\* from existing, which are kept unchanged; an incoming posting with such a link
\* is discarded whatever its other fields.
C2_ExistingLinkKeepsOriginal ==
    mpc = "done" =>
        /\ Len(merged) >= Len(existing)
        /\ \A k \in 1..Len(merged) :
              merged[k].link \in LinksOf(existing) =>
                  k <= Len(existing) /\ merged[k] = existing[k]

\* An incoming posting carries a link of existing with a different id and title.
C2_Witness ==
    /\ mpc = "done"
    /\ \E i \in 1..Len(new), k \in 1..Len(existing) :
          /\ new[i].link = existing[k].link
          /\ new[i].id # existing[k].id
          /\ new[i].titulo # existing[k].titulo
          /\ \A m \in 1..Len(merged) : merged[m] # new[i]

\* C3: merge_jobs(A, B) has A as a prefix, and the rest is a subsequence of B in
\* B's order.
C3_PrefixThenSubsequence ==
    mpc = "done" =>
        /\ IsPrefix(existing, merged)
        /\ IsSubsequence(SubSeq(merged, Len(existing) + 1, Len(merged)), new)

\* existing is not empty, and of three incoming postings the first and the last
\* were admitted and the one between them was not.
C3_Witness ==
    /\ mpc = "done"
    /\ existing # <<>>
    /\ Len(new) = 3
    /\ merged = existing \o <<new[1], new[3]>>
    /\ new[1] # new[3]

----------------------------------------------------------------------------
(* Properties of the store: save_jobs, load_jobs, run_crawler *)

\* C7: load_jobs after save_jobs(X) on the same path returns X: same length,
\* same order, every field equal, optional fields that are None included.
C7_LoadAfterSaveReturnsSame ==
    rpc = "done" => loaded = Returned(jobs)

\* A list of two different postings was saved and loaded: the first has every
\* optional field None and an empty url_empresa, the second sets them all.
C7_Witness ==
    /\ rpc = "done"
    /\ Len(jobs) = 2
    /\ jobs[1].senioridade = None /\ jobs[1].ats = None
    /\ jobs[1].salario_min = None /\ jobs[1].salario_max = None
    /\ jobs[1].url_empresa = ""
    /\ jobs[2].senioridade # None /\ jobs[2].ats # None
    /\ jobs[2].salario_min # None /\ jobs[2].salario_max # None
    /\ loaded = Returned(jobs)

\* C6: the store is append-only across run_crawler runs: the list the file holds
\* before a run is a prefix of the list it holds after the run.
C6_StoreAppendOnly ==
    [][load_jobs(file)[1] = "returned" =>
          /\ load_jobs(file')[1] = "returned"
          /\ IsPrefix(load_jobs(file)[2], load_jobs(file')[2])]_vars

\* Two postings are stored, and the last run fetched a posting whose link is stored with another id and title: the two stored
\* postings are all the file holds, unchanged.
C6_Witness ==
    /\ outcome = "returned"
    /\ Len(existing_jobs) = 2
    /\ new_count = 0
    /\ \E i \in 1..Len(all_jobs), k \in 1..Len(existing_jobs) :
          /\ all_jobs[i].link = existing_jobs[k].link
          /\ all_jobs[i].id # existing_jobs[k].id
          /\ all_jobs[i].titulo # existing_jobs[k].titulo
    /\ load_jobs(file) = Returned(existing_jobs)

\* The file exists and json.load fails on it, or one of its records lacks a key
\* that load_jobs subscripts
Malformed(content) ==
    \/ content = Unparseable
    \/ /\ content[1] = "json"
       /\ content[2][1] = "array"
       /\ \E i \in 1..Len(content[2][2]) :
             ~(SubscriptedKeys \subseteq DOMAIN content[2][2][i][2])

----------------------------------------------------------------------------
(* Properties of search_all_sources *)

\* The list an adapter call contributed: nothing when it raised
Contribution(name) == IF returns[name][1] = "returned" THEN returns[name][2] ELSE <<>>

\* The contributions of the sources, concatenated in the order of the blocks
RECURSIVE ConcatFrom(_)
ConcatFrom(i) ==
    IF i > Len(SourceOrder) THEN <<>>
    ELSE Contribution(SourceOrder[i]) \o ConcatFrom(i + 1)

\* C9: whichever adapters raise or return an empty list, no exception leaves
\* search_all_sources, every adapter has been invoked exactly once when it
\* returns, and it returns the concatenation of the lists of the adapters that
\* did not raise.
C9_SourcesIsolated ==
    /\ apc # "raised"
    /\ apc \in {"summary", "done"} =>
          /\ \A name \in Sources : Len(calls[name]) = 1
          /\ agg_jobs = ConcatFrom(1)

\* The first adapter raised, the second returned an empty list, the third
\* returned postings and the last raised: the third's postings are the result.
C9_Witness ==
    /\ apc = "done"
    /\ returns["RemoteOK"][1] = "raised"
    /\ returns["InfoJobs"] = Returned(<<>>)
    /\ returns["RSS Feeds"][1] = "returned" /\ returns["RSS Feeds"][2] # <<>>
    /\ returns["GetNinja"][1] = "raised"
    /\ agg_jobs = returns["RSS Feeds"][2]
    /\ sources_status["RemoteOK"] = <<"failed">>
    /\ sources_status["RSS Feeds"] = <<"ok", Len(agg_jobs)>>

\* Number of positions of list that hold job
Occurrences(list, job) == Cardinality({i \in 1..Len(list) : list[i] = job})

RECURSIVE SumOver(_, _)
SumOver(f(_), names) ==
    IF names = {} THEN 0
    ELSE LET name == CHOOSE n \in names : TRUE
         IN  f(name) + SumOver(f, names \ {name})

ContributedLength(name) == Len(Contribution(name))

DocumentedOrder == <<"RemoteOK", "InfoJobs", "GetNinja", "RSS Feeds">>

\* The contributions of the sources, concatenated in the order of a list of names
RECURSIVE ConcatInOrder(_, _)
ConcatInOrder(order, i) ==
    IF i > Len(order) THEN <<>>
    ELSE Contribution(order[i]) \o ConcatInOrder(order, i + 1)

\* C11: the sources are tried in the documented order RemoteOK, InfoJobs,
\* GetNinja, RSS feeds, so the returned list is their contributions in that
\* order: every GetNinja posting precedes every RSS-feed posting.
C11_DocumentedOrderOfSources ==
    apc = "done" =>
        agg_jobs = ConcatInOrder(DocumentedOrder, 1)

----------------------------------------------------------------------------
(* Text that the adapters and the scorer search and fold: a Python str whose *)
(* characters matter is a sequence of one-character strings                  *)

UpperCase == <<"A", "B", "C", "D", "E", "F", "G", "H", "I", "J", "K", "L", "M", "N", "O", "P", "Q", "R", "S", "T", "U", "V", "W", "X", "Y", "Z">>

LowerCase == <<"a", "b", "c", "d", "e", "f", "g", "h", "i", "j", "k", "l", "m", "n", "o", "p", "q", "r", "s", "t", "u", "v", "w", "x", "y", "z">>

\* The lower-case letter of each upper-case letter
LowerOf ==
    [c \in {UpperCase[i] : i \in DOMAIN UpperCase} |->
        LowerCase[CHOOSE i \in DOMAIN UpperCase : UpperCase[i] = c]]

lower_char(c) == IF c \in DOMAIN LowerOf THEN LowerOf[c] ELSE c

\* str.lower()
lower(text) == [i \in 1..Len(text) |-> lower_char(text[i])]

\* [k.lower() for k in keywords]
lower_each(texts) == [i \in 1..Len(texts) |-> lower(texts[i])]

\* Python's `sub in text` on two str
contains(text, sub) ==
    \E i \in 0..(Len(text) - Len(sub)) : SubSeq(text, i + 1, i + Len(sub)) = sub

\* sep.join(texts)
RECURSIVE join(_, _)
join(sep, texts) ==
    IF texts = <<>> THEN <<>>
    ELSE IF Len(texts) = 1 THEN texts[1]
    ELSE texts[1] \o sep \o join(sep, Tail(texts))

\* seq[:n], of a str or of a list
first_n(text, n) == SubSeq(text, 1, IF Len(text) < n THEN Len(text) ELSE n)

Space == <<" ">>

----------------------------------------------------------------------------
(* What a provider does with one request, and the Python operations the      *)
(* adapters apply to the decoded answer                                       *)

\* The request fails before any answer arrives (requests.ConnectionError)
ConnectionFailure == <<"error", "ConnectionError">>

\* No answer within timeout=10 (requests.Timeout)
NoAnswer == <<"error", "Timeout">>

\* An answer with a status code and a body: Unparseable, or a JSON value
HttpResponse(status_code, body) == <<"response", status_code, body>>

\* The subclasses of requests.RequestException the exchanges can raise
\* (requests 2.31: response.json() raises requests.JSONDecodeError, one of them)
RequestException == {"ConnectionError", "Timeout", "HTTPError", "JSONDecodeError"}

\* Every exception class of the model: what `except Exception` catches
Exception == RequestException \cup {"TypeError", "AttributeError"}

\* response = requests.get(...); response.raise_for_status(); response.json()
get_json(exchange) ==
    IF exchange[1] = "error" THEN Raised(exchange[2])
    ELSE IF exchange[2] >= 400 THEN Raised("HTTPError")
    ELSE IF exchange[3] = Unparseable THEN Raised("JSONDecodeError")
    ELSE Returned(exchange[3])

\* try: ... except <caught>: return []
except_return_empty(attempt, caught) ==
    IF attempt[1] = "raised" /\ attempt[2] \in caught THEN Returned(<<>>)
    ELSE attempt

\* The keys of a dict, in the order iteration yields them
keys_of(dict) ==
    CHOOSE s \in [1..Cardinality(DOMAIN dict) -> DOMAIN dict] :
        \A key \in DOMAIN dict : \E i \in DOMAIN s : s[i] = key

\* `for item in value`: the items, or the TypeError of a value that is not iterable
iterate(value) ==
    IF value[1] = "array" THEN Returned(value[2])
    ELSE IF value[1] = "object"
    THEN Returned([i \in 1..Cardinality(DOMAIN value[2]) |->
                      JString(keys_of(value[2])[i])])
    ELSE Raised("TypeError")

\* value.get(key, default): only a dict has the method
dict_get(value, key, default) ==
    IF value[1] # "object" THEN Raised("AttributeError")
    ELSE IF key \in DOMAIN value[2] THEN Returned(value[2][key])
    ELSE Returned(default)

\* `key in value`
key_in(key, value) ==
    IF value[1] = "object" THEN Returned(key \in DOMAIN value[2])
    ELSE IF value[1] = "array" THEN Returned(FALSE)
    ELSE Raised("TypeError")

Digits == <<"0", "1", "2", "3", "4", "5", "6", "7", "8", "9">>

\* str(value)
py_str(value) ==
    IF value[1] = "string" THEN value[2]
    ELSE IF value[1] = "number" THEN <<Digits[value[2] + 1]>>
    ELSE <<"N", "o", "n", "e">>

\* bool(value) of a string, a number or null
truthy(value) ==
    IF value[1] = "string" THEN value[2] # <<>>
    ELSE IF value[1] = "number" THEN value[2] # 0
    ELSE FALSE

\* The characters description[:500] keeps
DescricaoLimit == 500

\* The fields of the JobPosting an adapter builds that come from the item's text
AdapterPosting(titulo, descricao, requisitos, link) ==
    [titulo |-> titulo, descricao |-> descricao, requisitos |-> requisitos,
     link |-> link]

\* One pass of an adapter's loop over an item: the posting to append, or a skip
Skip == <<"skip">>

Keep(job) == <<"append", job>>

EmptyText == JString(<<>>)

----------------------------------------------------------------------------
(* src/crawler/remoteok_api.py *)

RemoteOKDefaultKeywords == <<<<"P", "y", "t", "h", "o", "n">>, <<"D", "a", "t", "a", " ", "E", "n", "g", "i", "n", "e", "e", "r">>, <<"B", "a", "c", "k", "e", "n", "d">>>>

\* _parse_remoteok_job: the posting, or None when building it raises.  The
\* items of the model carry no "company", so the title is searched for " at ".
parse_remoteok_job(data) ==
    LET title == dict_get(data, "title", EmptyText)[2]
        description == dict_get(data, "description", EmptyText)[2]
    IN  IF title[1] # "string" THEN None
        ELSE IF truthy(description) /\ description[1] # "string" THEN None
        ELSE Some(AdapterPosting(
                 title[2],
                 IF truthy(description)
                 THEN first_n(description[2], DescricaoLimit) ELSE <<>>,
                 IF truthy(description) THEN description[2] ELSE <<>>,
                 dict_get(data, "url", EmptyText)[2][2]))

\* Lines 59-64 with every keyword but the first one left out
remoteok_matches_first_keyword(title_lower, tags_lower, description_lower, keyword_lower) ==
    \E k \in {1} \cap DOMAIN keyword_lower :
        \/ contains(title_lower, keyword_lower[k])
        \/ contains(join(Space, tags_lower), keyword_lower[k])
        \/ contains(description_lower, keyword_lower[k])

\* matches_keywords = any(kw in title_lower or kw in " ".join(tags_lower) or
\*                        kw in description_lower for kw in keyword_lower)
remoteok_matches(title_lower, tags_lower, description_lower, keyword_lower) ==
    \E k \in DOMAIN keyword_lower :
        \/ contains(title_lower, keyword_lower[k])
        \/ contains(join(Space, tags_lower), keyword_lower[k])
        \/ contains(description_lower, keyword_lower[k])

\* The body of the loop for one item; whatever it raises is caught and skips
\* the item
remoteok_item(item, keyword_lower) ==
    IF item[1] # "object" THEN Skip
    ELSE LET tags == dict_get(item, "tags", JArray(<<>>))[2]
         IN  IF tags[1] # "array" THEN Skip
             ELSE IF \E i \in DOMAIN tags[2] : tags[2][i][1] # "string" THEN Skip
             ELSE IF ~remoteok_matches(
                         lower(py_str(dict_get(item, "title", EmptyText)[2])),
                         [i \in DOMAIN tags[2] |-> lower(tags[2][i][2])],
                         lower(py_str(dict_get(item, "description", EmptyText)[2])),
                         keyword_lower)
             THEN Skip
             ELSE IF parse_remoteok_job(item) = None THEN Skip
             ELSE Keep(parse_remoteok_job(item)[1])

\* count += 1 moved out of `if job:`, so that every item looked at counts
count_every_item(step, count) == count + 1

\* count += 1 under `if job:`: only an appended posting counts against the cap
count_appended(step, count) == IF step = Skip THEN count ELSE count + 1

\* jobs.append(job) under `if job:`
append_kept(jobs_so_far, step) ==
    IF step = Skip THEN jobs_so_far ELSE Append(jobs_so_far, step[2])

RECURSIVE remoteok_loop(_, _, _, _, _, _)
remoteok_loop(data, i, keyword_lower, limit, jobs_so_far, count) ==
    IF i > Len(data) \/ count >= limit THEN jobs_so_far
    ELSE remoteok_loop(data, i + 1, keyword_lower, limit,
                       append_kept(jobs_so_far, remoteok_item(data[i], keyword_lower)),
                       count_appended(remoteok_item(data[i], keyword_lower), count))

\* The body of the outer try: the list, or the exception that leaves it.
\* len(data) and the loop raise TypeError on a body that is null.
remoteok_try(kws, limit, exchange) ==
    IF get_json(exchange)[1] = "raised" THEN get_json(exchange)
    ELSE IF iterate(get_json(exchange)[2])[1] = "raised"
    THEN iterate(get_json(exchange)[2])
    ELSE Returned(remoteok_loop(iterate(get_json(exchange)[2])[2], 1,
                                lower_each(kws), limit, <<>>, 0))

search_remoteok_jobs(kws, limit, exchange) ==
    except_return_empty(
        remoteok_try(IF kws = <<>> THEN RemoteOKDefaultKeywords ELSE kws,
                     limit, exchange),
        Exception)

----------------------------------------------------------------------------
(* src/crawler/getninja_api.py *)

GetNinjaDefaultKeywords == <<<<"P", "y", "t", "h", "o", "n">>, <<"D", "a", "t", "a", " ", "E", "n", "g", "i", "n", "e", "e", "r">>>>

FreelanceSuffix == <<" ", "(", "F", "r", "e", "e", "l", "a", "n", "c", "e", "/", "P", "J", ")">>

GetNinjaHome == <<"h", "t", "t", "p", "s", ":", "/", "/", "w", "w", "w", ".", "g", "e", "t", "n", "i", "n", "j", "a", ".", "c", "o", "m", ".", "b", "r">>

\* _parse_getninja_project, for a project without "budget" and "client", whose
\* title and description the filter has found to be str
parse_getninja_project(data) ==
    LET title == dict_get(data, "title", EmptyText)[2]
        description == dict_get(data, "description", EmptyText)[2]
    IN  Some(AdapterPosting(
            py_str(title) \o FreelanceSuffix,
            IF truthy(description)
            THEN first_n(description[2], DescricaoLimit) ELSE <<>>,
            description[2],
            dict_get(data, "url", JString(GetNinjaHome))[2][2]))

\* matches = any(kw in title or kw in description for kw in keyword_lower)
title_or_description_matches(title, description, keyword_lower) ==
    \E k \in DOMAIN keyword_lower :
        contains(title, keyword_lower[k]) \/ contains(description, keyword_lower[k])

getninja_item(project, keyword_lower) ==
    IF project[1] # "object" THEN Skip
    ELSE LET title == dict_get(project, "title", EmptyText)[2]
             description == dict_get(project, "description", EmptyText)[2]
         IN  IF title[1] # "string" \/ description[1] # "string" THEN Skip
             ELSE IF ~title_or_description_matches(lower(title[2]),
                                                   lower(description[2]),
                                                   keyword_lower)
             THEN Skip
             ELSE Keep(parse_getninja_project(project)[1])

RECURSIVE getninja_loop(_, _, _, _, _, _)
getninja_loop(projects, i, keyword_lower, limit, jobs_so_far, count) ==
    IF i > Len(projects) \/ count >= limit THEN jobs_so_far
    ELSE getninja_loop(projects, i + 1, keyword_lower, limit,
             append_kept(jobs_so_far, getninja_item(projects[i], keyword_lower)),
             count_appended(getninja_item(projects[i], keyword_lower), count))

\* projects = data.get("data", data.get("projects", []))
getninja_projects(data) ==
    IF dict_get(data, "projects", JArray(<<>>))[1] = "raised"
    THEN dict_get(data, "projects", JArray(<<>>))
    ELSE dict_get(data, "data", dict_get(data, "projects", JArray(<<>>))[2])

\* The body of the try: a status other than 200 is logged and leaves jobs empty
getninja_try(kws, limit, exchange) ==
    IF exchange[1] = "error" THEN Raised(exchange[2])
    ELSE IF exchange[2] # 200 THEN Returned(<<>>)
    ELSE IF exchange[3] = Unparseable THEN Raised("JSONDecodeError")
    ELSE IF getninja_projects(exchange[3])[1] = "raised"
    THEN getninja_projects(exchange[3])
    ELSE IF iterate(getninja_projects(exchange[3])[2])[1] = "raised"
    THEN iterate(getninja_projects(exchange[3])[2])
    ELSE Returned(getninja_loop(iterate(getninja_projects(exchange[3])[2])[2], 1,
                                lower_each(kws), limit, <<>>, 0))

search_getninja(kws, limit, exchange) ==
    except_return_empty(
        getninja_try(IF kws = <<>> THEN GetNinjaDefaultKeywords ELSE kws,
                     limit, exchange),
        Exception)

----------------------------------------------------------------------------
(* src/crawler/gupy_dynamic.py *)

GupyDefaultKeywords == <<<<"P", "y", "t", "h", "o", "n">>, <<"D", "a", "t", "a">>, <<"E", "n", "g", "i", "n", "e", "e", "r">>>>

\* _parse_gupy_api_job, for a job without "company" and "location", whose name
\* and description the filter has found to be str
parse_gupy_api_job(data) ==
    LET title == dict_get(data, "name", EmptyText)[2]
        description == dict_get(data, "description", EmptyText)[2]
    IN  Some(AdapterPosting(
            title[2],
            IF truthy(description)
            THEN first_n(description[2], DescricaoLimit) ELSE <<>>,
            IF truthy(description) THEN description[2] ELSE <<>>,
            dict_get(data, "url", EmptyText)[2][2]))

gupy_item(item, keyword_lower) ==
    IF item[1] # "object" THEN Skip
    ELSE LET title == dict_get(item, "name", EmptyText)[2]
             description == dict_get(item, "description", EmptyText)[2]
         IN  IF title[1] # "string" \/ description[1] # "string" THEN Skip
             ELSE IF ~title_or_description_matches(lower(title[2]),
                                                   lower(description[2]),
                                                   keyword_lower)
             THEN Skip
             ELSE Keep(parse_gupy_api_job(item)[1])

RECURSIVE gupy_loop(_, _, _, _, _, _)
gupy_loop(data, i, keyword_lower, limit, jobs_so_far, count) ==
    IF i > Len(data) \/ count >= limit THEN jobs_so_far
    ELSE gupy_loop(data, i + 1, keyword_lower, limit,
                   append_kept(jobs_so_far, gupy_item(data[i], keyword_lower)),
                   count_appended(gupy_item(data[i], keyword_lower), count))

\* The body of the try: data.get("data", []) is what len() and the loop read
gupy_try(kws, limit, exchange) ==
    IF get_json(exchange)[1] = "raised" THEN get_json(exchange)
    ELSE IF dict_get(get_json(exchange)[2], "data", JArray(<<>>))[1] = "raised"
    THEN dict_get(get_json(exchange)[2], "data", JArray(<<>>))
    ELSE IF iterate(dict_get(get_json(exchange)[2], "data", JArray(<<>>))[2])[1]
                = "raised"
    THEN iterate(dict_get(get_json(exchange)[2], "data", JArray(<<>>))[2])
    ELSE Returned(gupy_loop(
             iterate(dict_get(get_json(exchange)[2], "data", JArray(<<>>))[2])[2],
             1, lower_each(kws), limit, <<>>, 0))

search_gupy_jobs_api(kws, limit, exchange) ==
    except_return_empty(
        gupy_try(IF kws = <<>> THEN GupyDefaultKeywords ELSE kws, limit, exchange),
        Exception)

----------------------------------------------------------------------------
(* src/crawler/rss_feeds.py *)

TECH_FEEDS == <<"Dev.to Brasil", "Python Brasil", "JavaScript Brasil", "Hacker News">>

RssDefaultKeywords == <<<<"P", "y", "t", "h", "o", "n">>, <<"D", "a", "t", "a">>, <<"E", "n", "g", "i", "n", "e", "e", "r">>, <<"J", "o", "b">>>>

\* feed.entries[:20]
EntriesPerFeed == 20

UnknownJob == <<"U", "n", "k", "n", "o", "w", "n", " ", "J", "o", "b">>

\* feedparser.parse(feed_url).entries: feedparser reports a failed or
\* unparseable feed in the result, with no entries
feed_entries(exchange) ==
    IF exchange[1] = "response" /\ exchange[2] = 200 /\ exchange[3][1] = "array"
    THEN exchange[3][2]
    ELSE <<>>

\* _parse_rss_entry, for an entry whose title and summary are str
parse_rss_entry(entry) ==
    LET title == dict_get(entry, "title", JString(UnknownJob))[2]
        summary == dict_get(entry, "summary", EmptyText)[2]
    IN  Some(AdapterPosting(
            title[2],
            IF truthy(summary) THEN first_n(summary[2], DescricaoLimit)
            ELSE title[2],
            summary[2],
            dict_get(entry, "link", EmptyText)[2][2]))

\* matches = any(kw in content for kw in keyword_lower)
content_matches(content, keyword_lower) ==
    \E k \in DOMAIN keyword_lower : contains(content, keyword_lower[k])

\* if not matches and "vaga" not in content and "job" not in content: continue
rss_entry_kept(content, keyword_lower) ==
    ~(/\ ~content_matches(content, keyword_lower)
      /\ ~contains(content, <<"v", "a", "g", "a">>)
      /\ ~contains(content, <<"j", "o", "b">>))

rss_entry(entry, keyword_lower) ==
    LET title == dict_get(entry, "title", EmptyText)[2]
        summary == dict_get(entry, "summary", EmptyText)[2]
    IN  IF title[1] # "string" \/ summary[1] # "string" THEN Skip
        ELSE IF ~rss_entry_kept(lower(title[2]) \o Space \o lower(summary[2]),
                                keyword_lower)
        THEN Skip
        ELSE Keep(parse_rss_entry(entry)[1])

\* for entry in feed.entries[:20]: if len(jobs) >= max_jobs: break ...
RECURSIVE rss_entries_loop(_, _, _, _, _)
rss_entries_loop(entries, i, keyword_lower, limit, jobs_so_far) ==
    IF i > Len(entries) \/ Len(jobs_so_far) >= limit THEN jobs_so_far
    ELSE rss_entries_loop(entries, i + 1, keyword_lower, limit,
                          append_kept(jobs_so_far, rss_entry(entries[i], keyword_lower)))

\* for feed_config in TECH_FEEDS: ...
RECURSIVE rss_feeds_loop(_, _, _, _, _)
rss_feeds_loop(exchanges, f, keyword_lower, limit, jobs_so_far) ==
    IF f > Len(TECH_FEEDS) THEN jobs_so_far
    ELSE rss_feeds_loop(exchanges, f + 1, keyword_lower, limit,
             rss_entries_loop(first_n(feed_entries(exchanges[f]), EntriesPerFeed),
                              1, keyword_lower, limit, jobs_so_far))

search_rss_feeds(kws, limit, exchanges) ==
    Returned(rss_feeds_loop(
        exchanges, 1,
        lower_each(IF kws = <<>> THEN RssDefaultKeywords ELSE kws), limit, <<>>))

----------------------------------------------------------------------------
(* src/crawler/infojobs_scraper.py: a job element of the page is the dict of *)
(* the texts of the children _parse_infojobs_job looks for                    *)

InfoJobsHome == <<"h", "t", "t", "p", "s", ":", "/", "/", "w", "w", "w", ".", "i", "n", "f", "o", "j", "o", "b", "s", ".", "c", "o", "m", ".", "b", "r">>

\* _parse_infojobs_job: None for an element without h2 and h3
parse_infojobs_job(element) ==
    IF "h2" \notin DOMAIN element[2] THEN None
    ELSE LET description == dict_get(element, "descricao", EmptyText)[2][2]
             link == dict_get(element, "href", EmptyText)[2][2]
         IN  Some(AdapterPosting(
                 element[2]["h2"][2],
                 IF description # <<>> THEN first_n(description, DescricaoLimit)
                 ELSE <<>>,
                 description,
                 IF first_n(link, 1) = <<"/">> THEN InfoJobsHome \o link ELSE link))

\* soup.find_all("article", class_="job"), else soup.find_all("div", class_="vaga")
job_elements(body) == IF body[1] = "array" THEN body[2] ELSE <<>>

\* for elem in job_elements[:max_results]: ...
RECURSIVE infojobs_loop(_, _, _)
infojobs_loop(elements, i, jobs_so_far) ==
    IF i > Len(elements) THEN jobs_so_far
    ELSE infojobs_loop(elements, i + 1,
             IF parse_infojobs_job(elements[i]) = None THEN jobs_so_far
             ELSE Append(jobs_so_far, parse_infojobs_job(elements[i])[1]))

infojobs_try(limit, exchange) ==
    IF exchange[1] = "error" THEN Raised(exchange[2])
    ELSE IF exchange[2] >= 400 THEN Raised("HTTPError")
    ELSE Returned(infojobs_loop(first_n(job_elements(exchange[3]), limit),
                                1, <<>>))

search_infojobs(kws, limit, exchange) ==
    except_return_empty(infojobs_try(limit, exchange), Exception)

----------------------------------------------------------------------------
(* src/crawler/adzuna.py *)

\* _parse_adzuna_job, which has no try of its own: the posting, or the
\* exception it raises (for an item without "company" and "location")
parse_adzuna_job(data) ==
    IF data[1] # "object" THEN Raised("AttributeError")
    ELSE LET description == dict_get(data, "description", EmptyText)[2]
         IN  IF description[1] # "string" THEN Raised("AttributeError")
             ELSE Returned(AdapterPosting(
                      py_str(dict_get(data, "title", EmptyText)[2]),
                      first_n(description[2], DescricaoLimit),
                      description[2],
                      dict_get(data, "redirect_url", EmptyText)[2][2]))

\* for job_data in data["results"]: ... with no test against max_results
RECURSIVE adzuna_loop(_, _, _)
adzuna_loop(results, i, jobs_so_far) ==
    IF i > Len(results) THEN jobs_so_far
    ELSE adzuna_loop(results, i + 1,
             IF parse_adzuna_job(results[i])[1] = "raised" THEN jobs_so_far
             ELSE Append(jobs_so_far, parse_adzuna_job(results[i])[2]))

\* The body of the try; max_results only enters the request, as
\* results_per_page
adzuna_try(exchange) ==
    IF get_json(exchange)[1] = "raised" THEN get_json(exchange)
    ELSE IF key_in("results", get_json(exchange)[2])[1] = "raised"
    THEN key_in("results", get_json(exchange)[2])
    ELSE IF ~key_in("results", get_json(exchange)[2])[2] THEN Returned(<<>>)
    ELSE IF iterate(get_json(exchange)[2][2]["results"])[1] = "raised"
    THEN iterate(get_json(exchange)[2][2]["results"])
    ELSE Returned(adzuna_loop(iterate(get_json(exchange)[2][2]["results"])[2],
                              1, <<>>))

\* except requests.RequestException is the only handler
search_jobs_adzuna(skills, limit, exchange) ==
    except_return_empty(adzuna_try(exchange), RequestException)

----------------------------------------------------------------------------
(* src/crawler/github_jobs.py *)

\* keywords[:3]
KeywordsPerSearch == 3

\* _parse_github_job: the posting, or the exception it raises
parse_github_job(data) ==
    IF data[1] # "object" THEN Raised("AttributeError")
    ELSE LET description == dict_get(data, "description", EmptyText)[2]
         IN  IF description[1] # "string" THEN Raised("AttributeError")
             ELSE Returned(AdapterPosting(
                      py_str(dict_get(data, "title", EmptyText)[2]),
                      first_n(description[2], DescricaoLimit),
                      description[2],
                      dict_get(data, "url", EmptyText)[2][2]))

\* if job and job.link not in [j.link for j in jobs]: jobs.append(job)
RECURSIVE github_loop(_, _, _)
github_loop(data, i, jobs_so_far) ==
    IF i > Len(data) THEN jobs_so_far
    ELSE github_loop(data, i + 1,
             IF parse_github_job(data[i])[1] = "raised" THEN jobs_so_far
             ELSE IF \E j \in DOMAIN jobs_so_far :
                        jobs_so_far[j].link = parse_github_job(data[i])[2].link
             THEN jobs_so_far
             ELSE Append(jobs_so_far, parse_github_job(data[i])[2]))

\* for keyword in keywords[:3]: one request each
RECURSIVE github_try(_, _, _, _)
github_try(exchanges, k, requests, jobs_so_far) ==
    IF k > requests THEN Returned(jobs_so_far)
    ELSE IF get_json(exchanges[k])[1] = "raised" THEN get_json(exchanges[k])
    ELSE IF iterate(get_json(exchanges[k])[2])[1] = "raised"
    THEN iterate(get_json(exchanges[k])[2])
    ELSE github_try(exchanges, k + 1, requests,
                    github_loop(iterate(get_json(exchanges[k])[2])[2], 1,
                                jobs_so_far))

\* except requests.RequestException is the only handler
search_jobs_github(kws, exchanges) ==
    except_return_empty(
        github_try(exchanges, 1,
                   IF Len(kws) < KeywordsPerSearch THEN Len(kws)
                   ELSE KeywordsPerSearch,
                   <<>>),
        RequestException)

----------------------------------------------------------------------------
(* A call of one source adapter, for every bounded provider answer *)

AdapterNames ==
    {"search_remoteok_jobs", "search_infojobs", "search_rss_feeds",
     "search_getninja", "search_gupy_jobs_api", "search_jobs_adzuna",
     "search_jobs_github"}

\* The adapters whose provider answers with a JSON list of dicts
JsonAdapters == AdapterNames \ {"search_infojobs", "search_rss_feeds"}

KeywordLists == {<<>>, <<<<"S", "Q", "L">>>>, <<<<"a", "w", "s">>, <<"P", "Y", "T", "H", "O", "N">>>>}

\* The key under which each provider sends an item's title, text and link
TitleKey(name) ==
    IF name = "search_gupy_jobs_api" THEN "name"
    ELSE IF name = "search_infojobs" THEN "h2"
    ELSE "title"

DescriptionKey(name) ==
    IF name = "search_rss_feeds" THEN "summary"
    ELSE IF name = "search_infojobs" THEN "descricao"
    ELSE "description"

LinkKey(name) ==
    IF name = "search_rss_feeds" THEN "link"
    ELSE IF name = "search_infojobs" THEN "href"
    ELSE IF name = "search_jobs_adzuna" THEN "redirect_url"
    ELSE "url"

ItemOf(name, title, description, link) ==
    JObject((TitleKey(name) :> JString(title))
            @@ (DescriptionKey(name) :> description)
            @@ (LinkKey(name) :> JString(link)))

WithTags(item, tags) ==
    JObject(("tags" :> JArray([i \in DOMAIN tags |-> JString(tags[i])])) @@ item[2])

PythonDev(name) == ItemOf(name, <<"P", "y", "t", "h", "o", "n", " ", "D", "e", "v">>, JString(<<"R", "e", "m", "o", "t", "e">>), <<"/", "1">>)

Analyst(name) == ItemOf(name, <<"A", "n", "a", "l", "y", "s", "t">>, JString(<<"u", "s", "e", "s", " ", "s", "q", "l">>), <<"/", "2">>)

CloudOps(name) ==
    WithTags(ItemOf(name, <<"C", "l", "o", "u", "d", " ", "O", "p", "s">>, JString(<<"R", "e", "m", "o", "t", "e">>), <<"/", "3">>), <<<<"A", "W", "S">>>>)

JobFair(name) == ItemOf(name, <<"J", "o", "b", " ", "f", "a", "i", "r">>, EmptyText, <<"/", "4">>)

Chef(name) == ItemOf(name, <<"C", "h", "e", "f">>, JString(<<"C", "o", "o", "k", "i", "n", "g">>), <<"/", "5">>)

\* An item that is a number where a dict is expected
NotADict == JNumber(7)

\* An item whose description is a number where text is expected
NumberDescription(name) == ItemOf(name, <<"P", "y", "t", "h", "o", "n", " ", "L", "e", "a", "d">>, JNumber(5), <<"/", "6">>)

\* A job element of an InfoJobs page without a heading
NoHeading == JObject(("descricao" :> JString(<<"R", "e", "m", "o", "t", "e">>)) @@ ("href" :> JString(<<"/", "7">>)))

WellFormedItems(name) ==
    IF name = "search_infojobs" THEN {PythonDev(name), Chef(name)}
    ELSE IF name = "search_rss_feeds"
    THEN {PythonDev(name), Analyst(name), JobFair(name), Chef(name)}
    ELSE {PythonDev(name), Analyst(name), CloudOps(name), JobFair(name), Chef(name)}

MalformedItems(name) ==
    IF name = "search_infojobs" THEN {NoHeading}
    ELSE IF name = "search_rss_feeds" THEN {}
    ELSE {NotADict, NumberDescription(name)}

ProviderItems(name) == WellFormedItems(name) \cup MalformedItems(name)

ItemLists(name, n) == UNION {[1..k -> ProviderItems(name)] : k \in 0..n}

\* The body of an answer that carries the items in the provider's format
WellFormedBody(name, items) ==
    IF name \in {"search_getninja", "search_gupy_jobs_api"}
    THEN JObject("data" :> JArray(items))
    ELSE IF name = "search_jobs_adzuna" THEN JObject("results" :> JArray(items))
    ELSE JArray(items)

ErrorBody == JObject("error" :> JString(<<"r", "a", "t", "e", " ", "l", "i", "m", "i", "t">>))

\* Bodies whose top level is not what the adapter expects
MalformedBodies(name) ==
    {Unparseable, JNull, ErrorBody}
    \cup (IF name \in {"search_getninja", "search_gupy_jobs_api"}
          THEN {JArray(<<>>), JObject("data" :> JNull)}
          ELSE IF name = "search_jobs_adzuna"
          THEN {JArray(<<>>), JObject("results" :> JNull)}
          ELSE {})

\* The ways one request can fail; feedparser reports them all alike
FailedExchanges(name) ==
    IF name = "search_rss_feeds" THEN {ConnectionFailure}
    ELSE {ConnectionFailure, NoAnswer, HttpResponse(429, ErrorBody),
          HttpResponse(500, Unparseable)}
         \cup {HttpResponse(200, body) : body \in MalformedBodies(name)}

\* The number of requests one call makes
Requests(name, kws) ==
    IF name = "search_rss_feeds" THEN Len(TECH_FEEDS)
    ELSE IF name = "search_jobs_github"
    THEN (IF Len(kws) < KeywordsPerSearch THEN Len(kws) ELSE KeywordsPerSearch)
    ELSE 1

\* The ways to cut a list of len items into the answers to n requests
Cuts(len, n) ==
    {c \in [0..n -> 0..len] :
        c[0] = 0 /\ c[n] = len /\ \A k \in 1..n : c[k - 1] <= c[k]}

search(name, kws, limit, exchanges) ==
    IF name = "search_remoteok_jobs" THEN search_remoteok_jobs(kws, limit, exchanges[1])
    ELSE IF name = "search_infojobs" THEN search_infojobs(kws, limit, exchanges[1])
    ELSE IF name = "search_rss_feeds" THEN search_rss_feeds(kws, limit, exchanges)
    ELSE IF name = "search_getninja" THEN search_getninja(kws, limit, exchanges[1])
    ELSE IF name = "search_gupy_jobs_api"
    THEN search_gupy_jobs_api(kws, limit, exchanges[1])
    ELSE IF name = "search_jobs_adzuna"
    THEN search_jobs_adzuna(kws, limit, exchanges[1])
    ELSE search_jobs_github(kws, exchanges)

InitAdapter ==
    /\ adapter \in AdapterNames
    /\ adapter_keywords \in KeywordLists
    /\ max_results \in 0..MaxCap
    /\ \E items \in ItemLists(adapter, MaxItems) :
          \E c \in Cuts(Len(items), Requests(adapter, adapter_keywords)),
             failure \in FailedExchanges(adapter) :
             \E failing \in SUBSET {k \in 1..Requests(adapter, adapter_keywords) :
                                       c[k - 1] = c[k]} :
                provider = [k \in 1..Requests(adapter, adapter_keywords) |->
                               IF k \in failing THEN failure
                               ELSE HttpResponse(200,
                                        WellFormedBody(adapter,
                                            SubSeq(items, c[k - 1] + 1, c[k])))]
    /\ found = <<"none">>
    /\ spc = "call"
    /\ file = NoFile
    /\ IdleMerge
    /\ IdleRoundTrip
    /\ IdleCrawler
    /\ IdleScorer
    /\ IdleAggregator
    /\ IdleRest

Search(name) ==
    /\ spc = "call"
    /\ adapter = name
    /\ found' = search(name, adapter_keywords, max_results, provider)
    /\ spc' = "done"
    /\ UNCHANGED <<adapter, adapter_keywords, max_results, provider, file,
                   mergeVars, roundTripVars, crawlerVars, aggVars,
                   scorerVars, restVars>>

SearchRemoteOKJobs == Search("search_remoteok_jobs")

SearchInfoJobsPage == Search("search_infojobs")

SearchRssFeeds == Search("search_rss_feeds")

SearchGetNinjaProjects == Search("search_getninja")

SearchGupyJobsApi == Search("search_gupy_jobs_api")

SearchJobsAdzuna == Search("search_jobs_adzuna")

SearchJobsGithub == Search("search_jobs_github")

NextAdapter ==
    \/ SearchRemoteOKJobs
    \/ SearchInfoJobsPage
    \/ SearchRssFeeds
    \/ SearchGetNinjaProjects
    \/ SearchGupyJobsApi
    \/ SearchJobsAdzuna
    \/ SearchJobsGithub

SpecAdapter == InitAdapter /\ [][NextAdapter]_vars

----------------------------------------------------------------------------
(* Properties of the source adapters *)

\* The adapters that take a result cap
CappedAdapters == AdapterNames \ {"search_jobs_github"}

\* C12: for every adapter that takes a result cap, every cap >= 0 and every
\* provider response, the returned list has at most max_results postings.
C12_AtMostMaxResults ==
    (spc = "done" /\ adapter \in CappedAdapters /\ found[1] = "returned")
        => Len(found[2]) <= max_results

\* The adapters that count or cut locally keep to the cap
C12_LocalCapsHold ==
    (spc = "done" /\ adapter \in CappedAdapters \ {"search_jobs_adzuna"})
        => found[1] = "returned" /\ Len(found[2]) <= max_results

\* Every request of the call failed: a network error, a timeout, a status that
\* is not 2xx, or a body whose top level is malformed
ProviderFailed ==
    /\ provider # <<>>
    /\ \A k \in DOMAIN provider : provider[k] \in FailedExchanges(adapter)

\* C13: no adapter propagates an exception on a provider failure: for a network
\* error, a timeout, a non-2xx status or a malformed top-level response it
\* returns an empty list.
C13_ProviderFailureYieldsEmptyList ==
    (spc = "done" /\ ProviderFailed) => found = Returned(<<>>)

\* The adapters with an `except Exception` handler do return an empty list
C13_CatchAllAdaptersReturnEmpty ==
    (spc = "done" /\ ProviderFailed
        /\ adapter \notin {"search_jobs_adzuna", "search_jobs_github"})
        => found = Returned(<<>>)

\* Every request of the call was answered, with a body in the provider's format
Answered ==
    /\ provider # <<>>
    /\ \A k \in DOMAIN provider : provider[k] \notin FailedExchanges(adapter)

\* The items an answer carries
ItemsOf(name, exchange) ==
    IF name \in {"search_getninja", "search_gupy_jobs_api"}
    THEN exchange[3][2]["data"][2]
    ELSE IF name = "search_jobs_adzuna" THEN exchange[3][2]["results"][2]
    ELSE exchange[3][2]

IsWellFormed(name, item) == item \notin MalformedItems(name)

\* The provider's answers with the malformed items taken out
WithoutMalformed(name, exchanges) ==
    [k \in DOMAIN exchanges |->
        HttpResponse(200, WellFormedBody(name,
            SelectSeq(ItemsOf(name, exchanges[k]),
                      LAMBDA item : IsWellFormed(name, item))))]

\* The keywords a call filters by: the adapter's defaults for an empty list
EffectiveKeywords(name, kws) ==
    IF kws # <<>> THEN kws
    ELSE IF name = "search_remoteok_jobs" THEN RemoteOKDefaultKeywords
    ELSE IF name = "search_getninja" THEN GetNinjaDefaultKeywords
    ELSE IF name = "search_gupy_jobs_api" THEN GupyDefaultKeywords
    ELSE RssDefaultKeywords

\* The adapters that stop when the postings appended reach the cap
CountingAdapters ==
    {"search_remoteok_jobs", "search_getninja", "search_gupy_jobs_api"}

\* What the loop body of a counting adapter makes of an item
StepOf(name, item, keyword_lower) ==
    IF name = "search_remoteok_jobs" THEN remoteok_item(item, keyword_lower)
    ELSE IF name = "search_getninja" THEN getninja_item(item, keyword_lower)
    ELSE gupy_item(item, keyword_lower)

\* The postings of the well-formed items that pass the filter, in response order
RECURSIVE PassingPostings(_, _, _)
PassingPostings(name, items, keyword_lower) ==
    IF items = <<>> THEN <<>>
    ELSE (IF IsWellFormed(name, items[1])
             /\ StepOf(name, items[1], keyword_lower) # Skip
          THEN <<StepOf(name, items[1], keyword_lower)[2]>>
          ELSE <<>>)
         \o PassingPostings(name, Tail(items), keyword_lower)

\* The postings of the job elements that have a heading, in page order
RECURSIVE HeadedPostings(_)
HeadedPostings(elements) ==
    IF elements = <<>> THEN <<>>
    ELSE (IF IsWellFormed("search_infojobs", elements[1])
          THEN <<parse_infojobs_job(elements[1])[1]>> ELSE <<>>)
         \o HeadedPostings(Tail(elements))

\* C14 (as stated): whatever the adapter, malformed items are skipped one by
\* one and the returned list is the one the adapter would return if the
\* malformed items were absent from the response.
C14_MalformedItemsAsIfAbsent ==
    (spc = "done" /\ Answered)
        => found = search(adapter, adapter_keywords, max_results,
                          WithoutMalformed(adapter, provider))

\* C14 (amended): the adapters that count appended postings (RemoteOK,
\* GetNinja, Gupy API) return the postings of the well-formed items that pass
\* the filter, in response order, up to the cap, which is the list they return
\* when the malformed items are absent; search_infojobs skips malformed
\* elements too, but cuts the page to its first max_results elements before
\* parsing them, so it returns the postings of the well-formed elements among
\* those.
C14_SkippedThenCappedOrCutThenSkipped ==
    (spc = "done" /\ Answered) =>
        /\ adapter \in CountingAdapters =>
              /\ found = Returned(first_n(
                     PassingPostings(adapter, ItemsOf(adapter, provider[1]),
                         lower_each(EffectiveKeywords(adapter, adapter_keywords))),
                     max_results))
              /\ found = search(adapter, adapter_keywords, max_results,
                                WithoutMalformed(adapter, provider))
        /\ adapter = "search_infojobs" =>
              found = Returned(HeadedPostings(
                          first_n(ItemsOf(adapter, provider[1]), max_results)))

\* RemoteOK answered with a malformed item that passes the
\* filter by its title but cannot be parsed, then a well-formed item that passes
\* it, and the cap is 1: the posting of the well-formed item is the result.
C14_Witness ==
    /\ spc = "done"
    /\ adapter = "search_remoteok_jobs"
    /\ Answered
    /\ max_results = 1
    /\ adapter_keywords = <<>>
    /\ ItemsOf(adapter, provider[1]) = <<NumberDescription(adapter), PythonDev(adapter)>>
    /\ found = Returned(<<parse_remoteok_job(PythonDev(adapter))[1]>>)

\* The adapters that filter the provider's items by keyword
FilteringAdapters == CountingAdapters \cup {"search_rss_feeds"}

TitleOf(name, item) == item[2][TitleKey(name)][2]

DescriptionOf(name, item) == item[2][DescriptionKey(name)][2]

TagsOf(item) ==
    IF "tags" \in DOMAIN item[2]
    THEN [i \in DOMAIN item[2]["tags"][2] |-> item[2]["tags"][2][i][2]]
    ELSE <<>>

LinkOf(name, item) == item[2][LinkKey(name)][2]

\* The well-formed items of the provider's answers
AnsweredItems ==
    UNION {{ItemsOf(adapter, provider[k])[i] :
               i \in DOMAIN ItemsOf(adapter, provider[k])} : k \in DOMAIN provider}
    \cap WellFormedItems(adapter)

\* The item has a posting in the returned list
IsReturned(item) ==
    \E j \in DOMAIN found[2] : found[2][j].link = LinkOf(adapter, item)

\* kw is a case-insensitive substring of text
FoldedIn(kw, text) == contains(lower(text), lower(kw))

\* Some keyword is in the title, in the description or summary, or in a tag
KeywordInSomeField(name, item, kws) ==
    \E k \in DOMAIN kws :
        \/ FoldedIn(kws[k], TitleOf(name, item))
        \/ FoldedIn(kws[k], DescriptionOf(name, item))
        \/ \E t \in DOMAIN TagsOf(item) : FoldedIn(kws[k], TagsOf(item)[t])

\* The call was answered in full and the cap is out of the way of the filter
FilterDecides ==
    /\ spc = "done"
    /\ adapter \in FilteringAdapters
    /\ Answered
    /\ max_results >= MaxItems
    /\ found[1] = "returned"

\* C15 (as stated): for the adapters that filter locally, an item is kept exactly
\* when at least one keyword is a case-insensitive substring of its title, its
\* description or summary, or its tags; an item that matches no keyword in any
\* field is never returned.
C15_KeptIffKeywordInSomeField ==
    FilterDecides =>
        \A item \in AnsweredItems :
            IsReturned(item) <=>
                KeywordInSomeField(adapter, item,
                                   EffectiveKeywords(adapter, adapter_keywords))

\* C15 (amended): search_remoteok_jobs keeps an item exactly when a keyword is a
\* case-insensitive substring of its title, of its tags joined by spaces or of
\* its description; search_getninja and search_gupy_jobs_api exactly when a
\* keyword is one of its title (name) or of its description, tags not being
\* looked at; search_rss_feeds exactly when a keyword is one of the text
\* "<title> <summary>" or that text contains "vaga" or "job", so an entry matching
\* no keyword is returned when it mentions a job.
C15_KeptIffAdapterFilterPasses ==
    FilterDecides =>
        \A item \in AnsweredItems :
            LET kws == EffectiveKeywords(adapter, adapter_keywords)
                title == TitleOf(adapter, item)
                description == DescriptionOf(adapter, item)
            IN  IsReturned(item) <=>
                  IF adapter = "search_remoteok_jobs"
                  THEN \E k \in DOMAIN kws :
                          \/ FoldedIn(kws[k], title)
                          \/ FoldedIn(kws[k], join(Space, TagsOf(item)))
                          \/ FoldedIn(kws[k], description)
                  ELSE IF adapter = "search_rss_feeds"
                  THEN \/ \E k \in DOMAIN kws :
                             FoldedIn(kws[k], title \o Space \o description)
                       \/ FoldedIn(<<"v", "a", "g", "a">>, title \o Space \o description)
                       \/ FoldedIn(<<"j", "o", "b">>, title \o Space \o description)
                  ELSE \E k \in DOMAIN kws :
                          FoldedIn(kws[k], title) \/ FoldedIn(kws[k], description)

\* The RSS feeds were searched for SQL and one entry, "Job fair", holds no
\* keyword in its title or summary: it is returned all the same.
C15_Witness ==
    /\ FilterDecides
    /\ adapter = "search_rss_feeds"
    /\ adapter_keywords = <<<<"S", "Q", "L">>>>
    /\ AnsweredItems = {JobFair(adapter)}
    /\ ~KeywordInSomeField(adapter, JobFair(adapter), adapter_keywords)
    /\ IsReturned(JobFair(adapter))
    /\ Len(found[2]) = 1

----------------------------------------------------------------------------
(* src/matching/scorer.py: a float is the fraction <<numerator, denominator>> *)
(* it stands for, with a positive denominator                                  *)

Frac(n, d) == <<n, d>>

FracAdd(a, b) == <<a[1] * b[2] + b[1] * a[2], a[2] * b[2]>>

FracMul(a, b) == <<a[1] * b[1], a[2] * b[2]>>

FracLeq(a, b) == a[1] * b[2] <= b[1] * a[2]

FracLt(a, b) == a[1] * b[2] < b[1] * a[2]

FracEq(a, b) == a[1] * b[2] = b[1] * a[2]

\* min(1.0, x)
min_one(x) == IF FracLeq(Frac(1, 1), x) THEN Frac(1, 1) ELSE x

\* src/config.py
SKILLS_WEIGHT == Frac(5, 10)

SENIORIDADE_WEIGHT == Frac(3, 10)

SEMANTIC_WEIGHT == Frac(2, 10)

\* {s.lower() for s in skills}
lower_set(skills) == {lower(skills[i]) : i \in DOMAIN skills}

\* overlap_count / len(resume_lower | job_lower) in place of line 71
calculate_skill_overlap_of_union(resume_skills, job_skills) ==
    IF job_skills = <<>> THEN Frac(1, 2)
    ELSE min_one(Frac(Cardinality(lower_set(resume_skills) \cap lower_set(job_skills)),
                      Cardinality(lower_set(resume_skills) \cup lower_set(job_skills))))

\* Lines 67-71 on the lists as they are: no lower(), no sets
calculate_skill_overlap_unfolded(resume_skills, job_skills) ==
    IF job_skills = <<>> THEN Frac(1, 2)
    ELSE min_one(Frac(Cardinality({i \in DOMAIN job_skills :
                                      \E r \in DOMAIN resume_skills :
                                          resume_skills[r] = job_skills[i]}),
                      Len(job_skills)))

calculate_skill_overlap(resume_skills, job_skills) ==
    IF job_skills = <<>> THEN Frac(1, 2)
    ELSE min_one(Frac(Cardinality(lower_set(resume_skills) \cap lower_set(job_skills)),
                      Cardinality(lower_set(job_skills))))

\* seniority_levels.get(senioridade, 1)
seniority_level(senioridade) ==
    IF senioridade = "Junior" THEN 0
    ELSE IF senioridade = "Pleno" THEN 1
    ELSE IF senioridade = "Senior" THEN 2
    ELSE IF senioridade = "Lead" THEN 3
    ELSE 1

\* abs(resume_level - job_level)
level_distance(resume_level, job_level) ==
    IF resume_level >= job_level THEN resume_level - job_level
    ELSE job_level - resume_level

\* Lines 94-106 with the difference of the levels in place of its abs()
senioridade_score_signed(resume_senioridade, job_senioridade) ==
    IF job_senioridade = None \/ job_senioridade = Some("") THEN Frac(1, 2)
    ELSE LET d == seniority_level(resume_senioridade)
                      - seniority_level(job_senioridade[1])
         IN  IF d = 0 THEN Frac(1, 1)
             ELSE IF d = 1 THEN Frac(8, 10)
             ELSE IF d = 2 THEN Frac(5, 10)
             ELSE Frac(2, 10)

\* _senioridade_score; job_senioridade is an Optional[str]
senioridade_score_of(resume_senioridade, job_senioridade) ==
    IF job_senioridade = None \/ job_senioridade = Some("") THEN Frac(1, 2)
    ELSE LET d == level_distance(seniority_level(resume_senioridade),
                                 seniority_level(job_senioridade[1]))
         IN  IF d = 0 THEN Frac(1, 1)
             ELSE IF d = 1 THEN Frac(8, 10)
             ELSE IF d = 2 THEN Frac(5, 10)
             ELSE Frac(2, 10)

\* Line 120 without the two lower()
calculate_semantic_similarity_cased(kws, description) ==
    IF kws = <<>> \/ description = <<>> THEN Frac(1, 2)
    ELSE min_one(Frac(Cardinality({k \in DOMAIN kws : contains(description, kws[k])}),
                      Len(kws)))

\* _calculate_semantic_similarity
calculate_semantic_similarity(kws, description) ==
    IF kws = <<>> \/ description = <<>> THEN Frac(1, 2)
    ELSE min_one(Frac(Cardinality({k \in DOMAIN kws :
                                      contains(lower(description), lower(kws[k]))}),
                      Len(kws)))

\* The three components added without their weights
final_score_unweighted(skill, seniority, semantic) ==
    FracAdd(FracAdd(skill, seniority), semantic)

\* final_score = SKILLS_WEIGHT * skill_overlap
\*             + SENIORIDADE_WEIGHT * senioridade_score
\*             + SEMANTIC_WEIGHT * semantic_score
final_score(skill, seniority, semantic) ==
    FracAdd(FracAdd(FracMul(SKILLS_WEIGHT, skill),
                    FracMul(SENIORIDADE_WEIGHT, seniority)),
            FracMul(SEMANTIC_WEIGHT, semantic))

\* [s for s in profile.skills if s.lower() in [j.lower() for j in job.skills_detectadas]]
overlapping_skills(resume_skills, job_skills) ==
    SelectSeq(resume_skills, LAMBDA s : lower(s) \in lower_set(job_skills))

\* The parts of the rationale, in the order they are appended; each f-string is
\* the tuple of what it formats
reasons_of(resume, posting, overlapping, seniority, semantic) ==
    (IF overlapping # <<>>
     THEN <<<<"Match de skills", Len(overlapping), first_n(overlapping, 3)>>>>
     ELSE <<>>)
    \o (IF FracLt(Frac(7, 10), seniority)
        THEN <<<<"Senioridade compativel", resume.senioridade, posting.senioridade>>>>
        ELSE <<>>)
    \o (IF FracLt(Frac(5, 10), semantic)
        THEN <<<<"Descricao alinhada com seu perfil">>>> ELSE <<>>)

\* Line 48 with the fallback phrase appended whatever the parts
motivo_of_always_fallback(reasons) == reasons \o <<<<"Perfil parcialmente alinhado">>>>

\* motivo = "; ".join(reasons) if reasons else "Perfil parcialmente alinhado"
motivo_of(reasons) ==
    IF reasons # <<>> THEN reasons ELSE <<<<"Perfil parcialmente alinhado">>>>

\* Match(vaga=job, score=final_score, skill_overlap=overlapping_skills, motivo=motivo)
Match(vaga, score, overlapping, motivo) ==
    [vaga |-> vaga, score |-> score, skill_overlap |-> overlapping, motivo |-> motivo]

score_job(resume, posting) ==
    Match(posting,
          final_score(calculate_skill_overlap(resume.skills, posting.skills_detectadas),
                      senioridade_score_of(resume.senioridade, posting.senioridade),
                      calculate_semantic_similarity(resume.keywords, posting.descricao)),
          overlapping_skills(resume.skills, posting.skills_detectadas),
          motivo_of(reasons_of(
              resume, posting,
              overlapping_skills(resume.skills, posting.skills_detectadas),
              senioridade_score_of(resume.senioridade, posting.senioridade),
              calculate_semantic_similarity(resume.keywords, posting.descricao))))

----------------------------------------------------------------------------
(* score_job applied to every bounded profile and posting *)

\* The skills of sample_profile and sample_job of tests/matching/test_scorer.py
SampleProfileSkills == <<<<"P", "y", "t", "h", "o", "n">>, <<"D", "j", "a", "n", "g", "o">>, <<"A", "W", "S">>, <<"P", "o", "s", "t", "g", "r", "e", "S", "Q", "L">>>>

SampleJobSkills == <<<<"P", "y", "t", "h", "o", "n">>, <<"D", "j", "a", "n", "g", "o">>, <<"A", "W", "S">>, <<"D", "o", "c", "k", "e", "r">>>>

\* Four skills of a profile that a posting with SampleJobSkills lists
FourOverlappingSkills == <<<<"P", "y", "t", "h", "o", "n">>, <<"D", "j", "a", "n", "g", "o">>, <<"A", "W", "S">>, <<"d", "o", "c", "k", "e", "r">>>>

ProfileSkillNames == {<<"p", "y", "t", "h", "o", "n">>, <<"A", "W", "S">>}

JobSkillNames == {<<"P", "y", "t", "h", "o", "n">>, <<"D", "o", "c", "k", "e", "r">>}

SkillLists(names, n) == UNION {[1..k -> names] : k \in 0..n}

\* senioridade of a profile: a level, or a value that names none
ProfileLevels == {"Junior", "Pleno", "Senior", "Lead", "Estagio"}

\* senioridade of a posting: None, empty, a level, or a value that names none
JobLevels == {None, Some("")} \cup {Some(level) : level \in ProfileLevels}

Descriptions == {<<>>, <<"P", "y", "t", "h", "o", "n", " ", "d", "e", "v">>, <<"S", "Q", "L", ",", " ", "P", "y", "t", "h", "o", "n", ",", " ", "A", "W", "S">>}

ResumeProfile(senioridade, skills, kws) ==
    [senioridade |-> senioridade, skills |-> skills, keywords |-> kws]

\* The fields of a JobPosting that score_job reads, and its id
ScoredPosting(skills, senioridade, descricao) ==
    [id |-> "test-1", skills_detectadas |-> skills, senioridade |-> senioridade,
     descricao |-> descricao]

NotScored ==
    /\ skill_overlap = <<>> /\ senioridade_score = <<>> /\ semantic_score = <<>>
    /\ match = <<>> /\ other_match = <<>>

InitScorer ==
    /\ \E senioridade \in ProfileLevels, kws \in KeywordLists,
          skills \in SkillLists(ProfileSkillNames, MaxSkills)
                        \cup {SampleProfileSkills, FourOverlappingSkills} :
          profile = ResumeProfile(senioridade, skills, kws)
    /\ \E senioridade \in JobLevels, descricao \in Descriptions,
          skills \in SkillLists(JobSkillNames, MaxSkills) \cup {SampleJobSkills} :
          scored_job = ScoredPosting(skills, senioridade, descricao)
    /\ other_skills = <<>>
    /\ NotScored
    /\ scpc = "score"
    /\ file = NoFile
    /\ IdleMerge
    /\ IdleRoundTrip
    /\ IdleCrawler
    /\ IdleAggregator
    /\ IdleAdapter
    /\ IdleRest

\* Two profiles that differ in their skills only, and one posting
InitScorerPair ==
    /\ \E senioridade \in {"Pleno", "Lead"}, kws \in {<<>>, <<<<"a", "w", "s">>, <<"P", "Y", "T", "H", "O", "N">>>>},
          skills \in SkillLists(ProfileSkillNames, MaxSkills) :
          profile = ResumeProfile(senioridade, skills, kws)
    /\ other_skills \in SkillLists(ProfileSkillNames, MaxSkills)
    /\ \E senioridade \in {None, Some("Senior")},
          skills \in SkillLists(JobSkillNames, MaxSkills) :
          scored_job = ScoredPosting(skills, senioridade, <<"P", "y", "t", "h", "o", "n", " ", "d", "e", "v">>)
    /\ NotScored
    /\ scpc = "pair"
    /\ file = NoFile
    /\ IdleMerge
    /\ IdleRoundTrip
    /\ IdleCrawler
    /\ IdleAggregator
    /\ IdleAdapter
    /\ IdleRest

\* score_job(profile, job)
ScoreJob ==
    /\ scpc \in {"score", "pair"}
    /\ skill_overlap' =
           calculate_skill_overlap(profile.skills, scored_job.skills_detectadas)
    /\ senioridade_score' =
           senioridade_score_of(profile.senioridade, scored_job.senioridade)
    /\ semantic_score' =
           calculate_semantic_similarity(profile.keywords, scored_job.descricao)
    /\ match' = score_job(profile, scored_job)
    /\ scpc' = IF scpc = "pair" THEN "other" ELSE "done"
    /\ UNCHANGED <<profile, scored_job, other_skills, other_match, file,
                   mergeVars, roundTripVars, crawlerVars, aggVars, adapterVars, restVars>>

\* score_job of the same posting for the profile with the other skills
ScoreOther ==
    /\ scpc = "other"
    /\ other_match' =
           score_job([profile EXCEPT !.skills = other_skills], scored_job)
    /\ scpc' = "done"
    /\ UNCHANGED <<profile, scored_job, skill_overlap, senioridade_score,
                   semantic_score, match, other_skills, file,
                   mergeVars, roundTripVars, crawlerVars, aggVars, adapterVars, restVars>>

NextScorer == ScoreJob

SpecScorer == InitScorer /\ [][NextScorer]_vars

NextScorerPair == ScoreJob \/ ScoreOther

SpecScorerPair == InitScorerPair /\ [][NextScorerPair]_vars

----------------------------------------------------------------------------
(* Properties of score_job and of its components *)

\* C16: for every profile and posting, empty skill lists, empty keyword lists,
\* empty descriptions and unspecified or unrecognized seniority values
\* included, score_job returns a Match whose score is in [0, 1] and whose vaga
\* is the posting that was scored.
C16_ScoreWithinUnitInterval ==
    scpc = "done" =>
        /\ FracLeq(Frac(0, 1), match.score)
        /\ FracLeq(match.score, Frac(1, 1))
        /\ match.vaga = scored_job

\* A posting without skills and description and with a seniority that names no
\* level, scored for a profile without keywords whose seniority names no
\* level either: 0.5 * 0.5 + 0.3 * 1.0 + 0.2 * 0.5
C16_Witness ==
    /\ scpc = "done"
    /\ scored_job.skills_detectadas = <<>>
    /\ scored_job.descricao = <<>>
    /\ scored_job.senioridade = Some("Estagio")
    /\ profile.senioridade = "Estagio"
    /\ profile.keywords = <<>>
    /\ match.vaga = scored_job
    /\ FracEq(match.score, Frac(65, 100))

\* The case-folded set of a skill list
Fold(skills) == {lower(skills[i]) : i \in DOMAIN skills}

\* C17: for a fixed posting and two profiles that differ only in their skills,
\* if the case-folded skill set of the first is a subset of that of the second,
\* the score of the second is >= the score of the first; adding skills that the
\* posting does not list leaves the score unchanged.
C17_MoreSkillsNeverLowerScore ==
    (scpc = "done" /\ Fold(profile.skills) \subseteq Fold(other_skills)) =>
        /\ FracLeq(match.score, other_match.score)
        /\ (Fold(other_skills) \ Fold(profile.skills))
               \cap Fold(scored_job.skills_detectadas) = {}
           => FracEq(match.score, other_match.score)

\* The second profile adds to the first a skill the posting lists, in another
\* letter case: its score is higher.
C17_Witness ==
    /\ scpc = "done"
    /\ profile.skills = <<<<"A", "W", "S">>>>
    /\ other_skills = <<<<"A", "W", "S">>, <<"p", "y", "t", "h", "o", "n">>>>
    /\ scored_job.skills_detectadas = <<<<"P", "y", "t", "h", "o", "n">>, <<"D", "o", "c", "k", "e", "r">>>>
    /\ FracLt(match.score, other_match.score)

RecognizedLevels == <<"Junior", "Pleno", "Senior", "Lead">>

\* Junior = 0, Pleno = 1, Senior = 2, Lead = 3
LevelNumber(level) == (CHOOSE i \in DOMAIN RecognizedLevels : RecognizedLevels[i] = level) - 1

IsRecognized(level) == \E i \in DOMAIN RecognizedLevels : RecognizedLevels[i] = level

\* 1.0 for d = 0, 0.8 for d = 1, 0.5 for d = 2, 0.2 for d >= 3
DistanceLookup(d) ==
    IF d = 0 THEN Frac(1, 1)
    ELSE IF d = 1 THEN Frac(8, 10)
    ELSE IF d = 2 THEN Frac(5, 10)
    ELSE Frac(2, 10)

\* C18: _senioridade_score is 0.5 when the posting's seniority is unspecified,
\* whatever the profile's level, and otherwise the lookup on the absolute
\* distance d of the levels Junior=0, Pleno=1, Senior=2, Lead=3: 1.0 for d=0
\* (so for every pair (X, X)), 0.8 for d=1, 0.5 for d=2, 0.2 for d>=3.
C18_SeniorityLookup ==
    scpc = "done" =>
        /\ scored_job.senioridade \in {None, Some("")}
             => FracEq(senioridade_score, Frac(1, 2))
        /\ (/\ scored_job.senioridade \notin {None, Some("")}
            /\ IsRecognized(scored_job.senioridade[1])
            /\ IsRecognized(profile.senioridade))
             => \E d \in 0..3 :
                   /\ d = LevelNumber(profile.senioridade)
                              - LevelNumber(scored_job.senioridade[1])
                      \/ d = LevelNumber(scored_job.senioridade[1])
                                - LevelNumber(profile.senioridade)
                   /\ FracEq(senioridade_score, DistanceLookup(d))

\* A Junior profile and a Lead posting: distance 3, score 0.2
C18_Witness ==
    /\ scpc = "done"
    /\ profile.senioridade = "Junior"
    /\ scored_job.senioridade = Some("Lead")
    /\ FracEq(senioridade_score, Frac(2, 10))

\* C19: calculate_skill_overlap(R, J) is 0.5 when J is empty and otherwise
\* |fold(R) \cap fold(J)| / |fold(J)|, duplicates and letter case not mattering;
\* {Python, Django, AWS, PostgreSQL} against {Python, Django, AWS, Docker}
\* gives 3/4.
C19_SkillOverlapRatio ==
    scpc = "done" =>
        /\ scored_job.skills_detectadas = <<>> => FracEq(skill_overlap, Frac(1, 2))
        /\ scored_job.skills_detectadas # <<>> =>
              FracEq(skill_overlap,
                     Frac(Cardinality(Fold(profile.skills)
                                          \cap Fold(scored_job.skills_detectadas)),
                          Cardinality(Fold(scored_job.skills_detectadas))))
        /\ (/\ profile.skills = SampleProfileSkills
            /\ scored_job.skills_detectadas = SampleJobSkills)
              => FracEq(skill_overlap, Frac(3, 4))

\* The profile and the posting of the example
C19_Witness ==
    /\ scpc = "done"
    /\ profile.skills = SampleProfileSkills
    /\ scored_job.skills_detectadas = SampleJobSkills
    /\ FracEq(skill_overlap, Frac(3, 4))

\* C20: the descriptive-relevance component is 0.5 when the profile's keyword
\* list is empty or the posting's description is empty, and otherwise the number
\* of keywords that are case-insensitive substrings of the description over the
\* number of keywords, which lies in [0, 1].
C20_KeywordRatio ==
    scpc = "done" =>
        /\ (profile.keywords = <<>> \/ scored_job.descricao = <<>>)
              => FracEq(semantic_score, Frac(1, 2))
        /\ (profile.keywords # <<>> /\ scored_job.descricao # <<>>) =>
              /\ FracEq(semantic_score,
                        Frac(Cardinality({k \in DOMAIN profile.keywords :
                                 FoldedIn(profile.keywords[k], scored_job.descricao)}),
                             Len(profile.keywords)))
              /\ FracLeq(Frac(0, 1), semantic_score)
              /\ FracLeq(semantic_score, Frac(1, 1))

\* One of the two keywords, in another letter case, is in the description
C20_Witness ==
    /\ scpc = "done"
    /\ profile.keywords = <<<<"a", "w", "s">>, <<"P", "Y", "T", "H", "O", "N">>>>
    /\ scored_job.descricao = <<"P", "y", "t", "h", "o", "n", " ", "d", "e", "v">>
    /\ FracEq(semantic_score, Frac(1, 2))
    /\ ~FracEq(semantic_score, Frac(0, 1))

\* The parts of a rationale, in the order of the specification, and the fallback
PartNames == <<"Match de skills", "Senioridade compativel",
               "Descricao alinhada com seu perfil">>

FallbackPhrase == "Perfil parcialmente alinhado"

HasPart(motivo, name) == \E i \in DOMAIN motivo : motivo[i][1] = name

\* The skills of the profile that the posting lists, letter case aside
OverlapOf(resume, posting) ==
    SelectSeq(resume.skills, LAMBDA s : lower(s) \in Fold(posting.skills_detectadas))

\* C21: the rationale of score_job is assembled from up to three parts in this
\* fixed order: the overlapping-skills part (the count and the first three
\* overlapping skills) iff a profile skill overlaps, the seniority part iff the
\* seniority component exceeds 0.7, the relevance part iff the descriptive
\* component exceeds 0.5; the fallback phrase is emitted iff none of the three
\* conditions holds, and never together with a part.
C21_RationaleParts ==
    scpc = "done" =>
        LET m == match.motivo
            ov == OverlapOf(profile, scored_job)
        IN  /\ HasPart(m, PartNames[1]) <=> ov # <<>>
            /\ \A i \in DOMAIN m :
                  m[i][1] = PartNames[1] =>
                      m[i] = <<PartNames[1], Len(ov),
                               SubSeq(ov, 1, IF Len(ov) < 3 THEN Len(ov) ELSE 3)>>
            /\ HasPart(m, PartNames[2]) <=> FracLt(Frac(7, 10), senioridade_score)
            /\ HasPart(m, PartNames[3]) <=> FracLt(Frac(5, 10), semantic_score)
            /\ \A i, j \in DOMAIN m :
                  i < j => \E a, b \in DOMAIN PartNames :
                              a < b /\ m[i][1] = PartNames[a] /\ m[j][1] = PartNames[b]
            /\ HasPart(m, FallbackPhrase) <=>
                  /\ ov = <<>>
                  /\ ~FracLt(Frac(7, 10), senioridade_score)
                  /\ ~FracLt(Frac(5, 10), semantic_score)
            /\ HasPart(m, FallbackPhrase) => Len(m) = 1
            /\ m # <<>>

\* Four overlapping skills, of which the rationale names three, a compatible
\* seniority and an aligned description: the three parts, in order
C21_Witness ==
    /\ scpc = "done"
    /\ Len(match.skill_overlap) = 4
    /\ Len(match.motivo) = 3
    /\ match.motivo[1][2] = 4
    /\ Len(match.motivo[1][3]) = 3
    /\ match.motivo[2][1] = PartNames[2]
    /\ match.motivo[3][1] = PartNames[3]

----------------------------------------------------------------------------
(* src/cli.py: main *)

\* list.sort(key=lambda m: m.score, reverse=True) keeps the elements of equal
\* score in their order (Python's sort is stable, with reverse too): one step
\* of it puts m behind every element whose score is not lower
\* m is put before an element of equal score too
ranks_before_on_ties(m, other) == FracLeq(other.score, m.score)

\* With reverse=True, m is put before the elements of lower score only
ranks_before(m, other) == FracLt(other.score, m.score)

RECURSIVE insert_by_score(_, _)
insert_by_score(ranked, m) ==
    IF ranked = <<>> THEN <<m>>
    ELSE IF ranks_before(m, Head(ranked)) THEN <<m>> \o ranked
    ELSE <<Head(ranked)>> \o insert_by_score(Tail(ranked), m)

\* matches.sort(key=lambda m: m.score, reverse=True)
RECURSIVE sort_by_score(_)
sort_by_score(list) ==
    IF list = <<>> THEN <<>>
    ELSE insert_by_score(sort_by_score(SubSeq(list, 1, Len(list) - 1)),
                         list[Len(list)])

\* [score_job(profile, job) for job in jobs]
score_all(resume, postings) == [i \in DOMAIN postings |-> score_job(resume, postings[i])]

\* [m for m in matches if m.score >= min_score]
at_least(ms, threshold) == SelectSeq(ms, LAMBDA m : FracLeq(threshold, m.score))

\* Postings of the store: of score 0.9, 0.25 and 0.5 for the profiles below
StoredVariants ==
    {ScoredPosting(<<<<"P", "y", "t", "h", "o", "n">>>>, Some("Pleno"), <<"P", "y", "t", "h", "o", "n", " ", "d", "e", "v">>),
     ScoredPosting(<<<<"D", "o", "c", "k", "e", "r">>>>, Some("Lead"), <<>>),
     ScoredPosting(<<>>, None, <<>>)}

\* The postings the store can hold, told apart by their id
StoredLists ==
    UNION {{[i \in 1..n |-> [variant[i] EXCEPT !.id = i]] :
               variant \in [1..n -> StoredVariants]} : n \in 0..MaxJobs}

CliProfiles ==
    {ResumeProfile("Pleno", <<<<"p", "y", "t", "h", "o", "n">>>>, <<<<"a", "w", "s">>, <<"P", "Y", "T", "H", "O", "N">>>>),
     ResumeProfile("Junior", <<>>, <<>>)}

\* What parse_resume and analyze_resume_with_groq can end with
Analyses ==
    {Returned(p) : p \in CliProfiles}
        \cup {Raised(e) : e \in {"FileNotFoundError", "ValueError", "Exception"}}

\* --min-score: a float, 0.5 by default
MinScores == {Frac(0, 1), Frac(1, 2), Frac(1, 1)}

NotRun ==
    /\ matches = <<>> /\ high_matches = <<>> /\ report_matches = None
    /\ printed_count = None /\ exit_code = None

InitCli ==
    /\ analysis \in Analyses
    /\ cli_jobs \in StoredLists
    /\ min_score \in MinScores
    /\ NotRun
    /\ clipc = "run"
    /\ IdleBesidesCli

\* main(resume_path, output, min_score, open), the report being written and
\* the browser opened without an error
Main ==
    /\ clipc = "run"
    /\ IF analysis[1] = "raised" \/ cli_jobs = <<>>
       THEN /\ exit_code' = Some(1)
            /\ UNCHANGED <<matches, high_matches, report_matches, printed_count>>
       ELSE \E ranked \in {sort_by_score(score_all(analysis[2], cli_jobs))} :
                /\ matches' = ranked
                /\ high_matches' = at_least(ranked, min_score)
                /\ report_matches' = Some(ranked)
                /\ printed_count' = Some(Len(ranked))
                /\ exit_code' = Some(0)
    /\ clipc' = "done"
    /\ UNCHANGED <<analysis, cli_jobs, min_score, varsBesidesCli>>

NextCli == Main

SpecCli == InitCli /\ [][NextCli]_vars

Rankings(n) == {p \in [1..n -> 1..n] : \A i, j \in 1..n : p[i] = p[j] => i = j}

\* C22: the ranked match list is a permutation of the matches of all stored
\* postings, sorted by score in non-increasing order, and stable: two matches
\* of equal score are in the relative order their postings have in the store.
C22_RankedStablePermutation ==
    (clipc = "done" /\ exit_code = Some(0)) =>
        \E p \in Rankings(Len(cli_jobs)) :
            /\ Len(matches) = Len(cli_jobs)
            /\ \A k \in DOMAIN matches :
                  matches[k] = score_job(analysis[2], cli_jobs[p[k]])
            /\ \A k, l \in DOMAIN matches :
                  k < l => /\ FracLeq(matches[l].score, matches[k].score)
                           /\ FracEq(matches[k].score, matches[l].score) => p[k] < p[l]

\* Three postings of which the first and the third have the same, lower score:
\* the second is ranked first and the two others keep their order
C22_Witness ==
    /\ clipc = "done"
    /\ exit_code = Some(0)
    /\ Len(matches) = 3
    /\ matches[1].vaga.id = 2
    /\ matches[2].vaga.id = 1
    /\ matches[3].vaga.id = 3
    /\ FracLt(matches[2].score, matches[1].score)
    /\ FracEq(matches[2].score, matches[3].score)

\* C23: in a run with threshold min_score (0.5 by default), every match handed
\* to the report generator, and counted in the printed match count, has a
\* score >= min_score.
C23_ReportedMatchesReachThreshold ==
    (clipc = "done" /\ exit_code = Some(0)) =>
        /\ \A k \in DOMAIN report_matches[1] :
              FracLeq(min_score, report_matches[1][k].score)
        /\ printed_count[1] =
              Cardinality({k \in DOMAIN matches : FracLeq(min_score, matches[k].score)})

----------------------------------------------------------------------------
(* search_all_sources, one step per network call: a call blocks until the  *)
(* endpoint answers or the timeout of the call, if it has one, expires     *)

\* The sources whose adapter makes one requests.get(..., timeout=10)
TimedSources == {"RemoteOK", "InfoJobs", "GetNinja"}

\* feedparser.parse(feed_url) is called once per feed, without a timeout
FeedNames == {TECH_FEEDS[i] : i \in DOMAIN TECH_FEEDS}

Endpoints == TimedSources \cup FeedNames

\* No endpoint, or one of them, never answers
SilentEndpoints == {{}} \cup {{e} : e \in Endpoints}

WaitingOn(name) ==
    CASE name = "RemoteOK" -> "RemoteOK: waiting"
      [] name = "InfoJobs" -> "InfoJobs: waiting"
      [] name = "GetNinja" -> "GetNinja: waiting"
      [] name = "RSS Feeds" -> "RSS Feeds: waiting"

\* What the call of an adapter produces once its endpoint has answered
AnsweredResults ==
    {Raised("Exception"), Returned(<<>>),
     Returned(<<JobPosting("test-1", "https://test.com/job/1")>>)}

\* What one feed adds to `jobs` once it is parsed
FeedPostings == {<<>>, <<JobPosting("test-2", "https://test.com/job/2")>>}

InitWaits ==
    /\ keywords \in KeywordArgs
    /\ max_jobs_per_source \in CapArgs
    /\ agg_jobs = <<>>
    /\ sources_status = <<>>
    /\ apc = "start"
    /\ calls = [name \in Sources |-> <<>>]
    /\ returns = [name \in Sources |-> <<"none">>]
    /\ never_answers \in SilentEndpoints
    /\ feed_index = 0
    /\ rss_jobs = <<>>
    /\ IdleBesidesWait

\* response = requests.get(url, ..., timeout=10): the request is sent
Request(name) ==
    /\ apc = name
    /\ apc' = WaitingOn(name)
    /\ UNCHANGED <<keywords, max_jobs_per_source, agg_jobs, sources_status, calls,
                   returns, waitVars, varsBesidesWait>>

\* The endpoint answers and the adapter returns, or raises
Respond(name, following) ==
    /\ apc = WaitingOn(name)
    /\ name \notin never_answers
    /\ \E result \in AnsweredResults : TrySource(name, result, following)

\* No answer within the timeout: requests raises a Timeout, a
\* RequestException, and the adapter returns []
TimeOut(name, following) ==
    /\ apc = WaitingOn(name)
    /\ TrySource(name, Returned(<<>>), following)

\* jobs = []; for feed_config in TECH_FEEDS:
EnterFeeds ==
    /\ apc = "RSS Feeds"
    /\ apc' = "RSS Feeds: loop"
    /\ feed_index' = 1
    /\ rss_jobs' = <<>>
    /\ UNCHANGED <<keywords, max_jobs_per_source, agg_jobs, sources_status, calls,
                   returns, never_answers, varsBesidesWait>>

\* feed = feedparser.parse(feed_url): the request is sent
FetchFeed ==
    /\ apc = "RSS Feeds: loop"
    /\ feed_index <= Len(TECH_FEEDS)
    /\ apc' = WaitingOn("RSS Feeds")
    /\ UNCHANGED <<keywords, max_jobs_per_source, agg_jobs, sources_status, calls,
                   returns, waitVars, varsBesidesWait>>

\* The feed answers: its entries are gone through, or the error is logged,
\* and the loop goes on; nothing ends the wait for a feed that does not answer
FeedParsed ==
    /\ apc = WaitingOn("RSS Feeds")
    /\ TECH_FEEDS[feed_index] \notin never_answers
    /\ \E kept \in FeedPostings :
          rss_jobs' = first_n(rss_jobs \o kept, max_jobs_per_source)
    /\ feed_index' = feed_index + 1
    /\ apc' = "RSS Feeds: loop"
    /\ UNCHANGED <<keywords, max_jobs_per_source, agg_jobs, sources_status, calls,
                   returns, never_answers, varsBesidesWait>>

\* return jobs, and the rest of the source block
FeedsDone ==
    /\ apc = "RSS Feeds: loop"
    /\ feed_index > Len(TECH_FEEDS)
    /\ TrySource("RSS Feeds", Returned(rss_jobs), "GetNinja")

NextWaits ==
    \/ Start
    \/ Request("RemoteOK")
    \/ Respond("RemoteOK", "InfoJobs")
    \/ TimeOut("RemoteOK", "InfoJobs")
    \/ Request("InfoJobs")
    \/ Respond("InfoJobs", "RSS Feeds")
    \/ TimeOut("InfoJobs", "RSS Feeds")
    \/ EnterFeeds
    \/ FetchFeed
    \/ FeedParsed
    \/ FeedsDone
    \/ Request("GetNinja")
    \/ Respond("GetNinja", "summary")
    \/ TimeOut("GetNinja", "summary")
    \/ Summary

\* The process keeps running: an answer that comes is taken, a timeout that is
\* set expires
SpecWaits == InitWaits /\ [][NextWaits]_vars /\ WF_vars(NextWaits)

\* C24: every network call of an aggregation run (RemoteOK, InfoJobs, each RSS
\* feed, GetNinja) is bounded by a timeout, so search_all_sources eventually
\* returns even when one source never answers; the source that hangs
\* contributes nothing.
C24_EventuallyReturns ==
    /\ <>(apc = "done")
    /\ [](apc = "done" =>
             \A name \in TimedSources \cap never_answers :
                 returns[name] = Returned(<<>>))

\* With every feed answering, the run returns whichever timed source is silent
C24_ReturnsWhenFeedsAnswer ==
    (never_answers \cap FeedNames = {}) => <>(apc = "done")

----------------------------------------------------------------------------
(* src/resume/analyzer.py. A response text is the sequence of its braces   *)
(* and of the brace-free pieces between them: a piece is plain text, a     *)
(* member `"key": value` of an object with its commas, or the `"key":`     *)
(* that comes before an object value                                       *)

LBrace == <<"{">>

RBrace == <<"}">>

Prose == <<"text">>

Member(key, value) == <<"member", key, value>>

KeyOf(key) == <<"key", key>>

is_brace(piece) == piece = LBrace \/ piece = RBrace

\* [^{}]* from position j: the position of the next brace, or the end
RECURSIVE skip_plain(_, _)
skip_plain(text, j) ==
    IF j > Len(text) \/ is_brace(text[j]) THEN j ELSE skip_plain(text, j + 1)

\* (?:\{[^{}]*\}[^{}]*)*\} from position j, where a brace or the end is: the
\* position of the last brace of the match, or 0. Nothing but a brace can
\* follow [^{}]*, so the greedy match is the only one
RECURSIVE match_groups(_, _)
match_groups(text, j) ==
    IF j > Len(text) THEN 0
    ELSE IF text[j] = RBrace THEN j
    ELSE IF skip_plain(text, j + 1) <= Len(text)
            /\ text[skip_plain(text, j + 1)] = RBrace
    THEN match_groups(text, skip_plain(text, skip_plain(text, j + 1) + 1))
    ELSE 0

\* The pattern \{[^{}]*(?:\{[^{}]*\}[^{}]*)*\} matched from position i
match_at(text, i) ==
    IF text[i] = LBrace THEN match_groups(text, skip_plain(text, i + 1)) ELSE 0

\* re.search(pattern, response_text, re.DOTALL): the leftmost match
re_search(text) ==
    IF \E i \in DOMAIN text : match_at(text, i) # 0
    THEN LET i == CHOOSE i \in DOMAIN text :
                      /\ match_at(text, i) # 0
                      /\ \A h \in 1..(i - 1) : match_at(text, h) = 0
         IN  Some(SubSeq(text, i, match_at(text, i)))
    ELSE None

\* _extract_json_from_response
extract_json_from_response(response_text) ==
    IF re_search(response_text) # None
    THEN Returned(re_search(response_text)[1])
    ELSE Raised("ValueError")

\* The position of the brace that closes the `depth` objects open before
\* position j, or 0
RECURSIVE closing_brace(_, _, _)
closing_brace(text, j, depth) ==
    IF j > Len(text) THEN 0
    ELSE IF text[j] = LBrace THEN closing_brace(text, j + 1, depth + 1)
    ELSE IF text[j] = RBrace
    THEN (IF depth = 1 THEN j ELSE closing_brace(text, j + 1, depth - 1))
    ELSE closing_brace(text, j + 1, depth)

\* The end of the balanced {...} that begins at position i, or 0
balanced_end(text, i) ==
    IF text[i] = LBrace THEN closing_brace(text, i + 1, 1) ELSE 0

\* json.loads of a text: an object of members, a value of which can be an
\* object again; of two members with one key the later counts. Anything else
\* is a JSONDecodeError, which is a ValueError
RECURSIVE json_loads(_)
RECURSIVE loads_members(_, _, _)
loads_members(text, i, dict) ==
    IF i = Len(text) THEN Returned(JObject(dict))
    ELSE IF text[i][1] = "member"
    THEN loads_members(text, i + 1, (text[i][2] :> text[i][3]) @@ dict)
    ELSE IF /\ text[i][1] = "key"
            /\ i + 1 < Len(text)
            /\ balanced_end(text, i + 1) # 0
            /\ balanced_end(text, i + 1) < Len(text)
    THEN LET value == json_loads(SubSeq(text, i + 1, balanced_end(text, i + 1)))
         IN  IF value[1] = "raised" THEN value
             ELSE loads_members(text, balanced_end(text, i + 1) + 1,
                                (text[i][2] :> value[2]) @@ dict)
    ELSE Raised("ValueError")

json_loads(text) ==
    IF Len(text) >= 2 /\ text[1] = LBrace /\ balanced_end(text, 1) = Len(text)
    THEN loads_members(text, 2, <<>>)
    ELSE Raised("ValueError")

\* data.get(key, default) of the dict json.loads returned
get(data, key, default) == IF key \in DOMAIN data[2] THEN data[2][key] ELSE default

\* ResumeProfile(area=data.get("area", "Backend"), ...)
profile_of(data) ==
    [area |-> get(data, "area", JString("Backend")),
     senioridade |-> get(data, "senioridade", JString("Pleno")),
     skills |-> get(data, "skills", JArray(<<>>)),
     soft_skills |-> get(data, "soft_skills", JArray(<<>>)),
     anos_experiencia |-> get(data, "anos_experiencia", JNumber(0)),
     keywords |-> get(data, "keywords", JArray(<<>>)),
     empresas_anteriores |-> get(data, "empresas_anteriores", JArray(<<>>))]

\* analyze_resume_with_groq from the chat completion on
analyze_resume_with_groq(completion) ==
    IF completion[1] = "raised" THEN completion
    ELSE IF extract_json_from_response(completion[2])[1] = "raised"
    THEN extract_json_from_response(completion[2])
    ELSE LET data == json_loads(extract_json_from_response(completion[2])[2])
         IN  IF data[1] = "raised" THEN data ELSE Returned(profile_of(data[2]))

\* Runs of braces and text
BraceRuns == UNION {[1..n -> {LBrace, RBrace, Prose}] : n \in 0..MaxResponse}

\* The members a response gives; "Especialista" names no level
Members ==
    {Member("senioridade", JString("Senior")),
     Member("senioridade", JString("Especialista")),
     Member("senioridade", JNull),
     Member("area", JString("Data"))}

\* Flat objects of up to two members
FlatObjects ==
    {<<LBrace>> \o members \o <<RBrace>> :
        members \in UNION {[1..n -> Members] : n \in 0..2}}

\* Objects with objects inside, one and two deep
NestedObjects ==
    {<<LBrace, Member("senioridade", JString("Lead")),
       KeyOf("contato"), LBrace, Member("area", JString("Data")), RBrace, RBrace>>,
     <<LBrace, Member("senioridade", JString("Lead")),
       KeyOf("contato"), LBrace, KeyOf("endereco"), LBrace, RBrace, RBrace, RBrace>>,
     <<LBrace, KeyOf("contato"), LBrace, KeyOf("endereco"), LBrace, RBrace,
       Member("senioridade", JString("Junior")), RBrace,
       Member("senioridade", JString("Lead")), RBrace>>}

\* An object, alone or within prose
ObjectResponses ==
    {before \o object \o after :
        before \in {<<>>, <<Prose>>}, after \in {<<>>, <<Prose>>},
        object \in FlatObjects \cup NestedObjects}

\* What client.chat.completions.create(...) can end with; the ValueError is
\* the one of a GROQ_API_KEY that is not set
Completions ==
    {Returned(text) : text \in BraceRuns \cup ObjectResponses}
        \cup {Raised("ValueError"), Raised("APIError")}

InitAnalyzer ==
    /\ model_response \in Completions
    /\ json_str = <<"none">>
    /\ analyzed = <<"none">>
    /\ anpc = "call"
    /\ IdleBesidesAnalyzer

AnalyzeResume ==
    /\ anpc = "call"
    /\ json_str' = IF model_response[1] = "raised" THEN <<"none">>
                   ELSE extract_json_from_response(model_response[2])
    /\ analyzed' = analyze_resume_with_groq(model_response)
    /\ anpc' = "done"
    /\ UNCHANGED <<model_response, varsBesidesAnalyzer>>

NextAnalyzer == AnalyzeResume

SpecAnalyzer == InitAnalyzer /\ [][NextAnalyzer]_vars

Levels == {"Junior", "Pleno", "Senior", "Lead"}

\* C25: every ResumeProfile analyze_resume_with_groq returns has senioridade
\* in {Junior, Pleno, Senior, Lead}: when the extracted JSON omits the field or
\* carries a value that is not one of them, the senioridade is Pleno.
C25_SenioridadeIsALevel ==
    (anpc = "done" /\ analyzed[1] = "returned") =>
        analyzed[2].senioridade \in {JString(level) : level \in Levels}

\* What holds: an omitted field gives Pleno, a field that is there is taken as it is
C25_SenioridadeAsGivenOrPleno ==
    (anpc = "done" /\ analyzed[1] = "returned") =>
        LET data == json_loads(json_str[2])[2][2]
        IN  analyzed[2].senioridade =
                IF "senioridade" \in DOMAIN data THEN data["senioridade"]
                ELSE JString("Pleno")

\* The first balanced {...} of a text, if it has one
FirstBalanced(text) ==
    IF \E i \in DOMAIN text : balanced_end(text, i) # 0
    THEN LET i == CHOOSE i \in DOMAIN text :
                      /\ balanced_end(text, i) # 0
                      /\ \A h \in 1..(i - 1) : balanced_end(text, h) = 0
         IN  Some(SubSeq(text, i, balanced_end(text, i)))
    ELSE None

\* C26: for a response that embeds a JSON object in prose,
\* _extract_json_from_response returns the first balanced {...} of the response
\* (the outermost one, whatever the nesting depth of the objects inside); when
\* the response has no JSON object it raises a ValueError.
C26_ExtractsFirstBalancedObject ==
    (anpc = "done" /\ model_response[1] = "returned") =>
        json_str = IF FirstBalanced(model_response[2]) # None
                   THEN Returned(FirstBalanced(model_response[2])[1])
                   ELSE Raised("ValueError")

\* The deepest nesting of braces within a text
RECURSIVE depth_of(_, _, _, _)
depth_of(text, j, depth, deepest) ==
    IF j > Len(text) THEN deepest
    ELSE IF text[j] = LBrace
    THEN depth_of(text, j + 1, depth + 1,
                  IF depth + 1 > deepest THEN depth + 1 ELSE deepest)
    ELSE IF text[j] = RBrace THEN depth_of(text, j + 1, depth - 1, deepest)
    ELSE depth_of(text, j + 1, depth, deepest)

\* What holds: the first balanced object is returned when the objects inside
\* it have no objects inside, and a ValueError is raised when there is none
C26_ExtractsObjectsOneDeep ==
    (anpc = "done" /\ model_response[1] = "returned") =>
        /\ FirstBalanced(model_response[2]) = None <=> json_str = Raised("ValueError")
        /\ (/\ FirstBalanced(model_response[2]) # None
            /\ depth_of(FirstBalanced(model_response[2])[1], 1, 0, 0) <= 2)
              => json_str = Returned(FirstBalanced(model_response[2])[1])

----------------------------------------------------------------------------
(* src/crawler/scraper.py: extract_job_postings. A page is the list of the *)
(* containers its first matching selector finds, each with the text of its *)
(* title element, if it has one, and of its description element ("" if it *)
(* has none)                                                               *)

Container(title, description) == [title |-> title, description |-> description]

\* The JobPosting built for a container with a title element
posting_of_container(container, source_url) ==
    AdapterPosting(container.title[1], container.description,
                   container.description, source_url)

\* for container in containers: if title_elem: jobs.append(JobPosting(...))
RECURSIVE extract_job_postings(_, _)
extract_job_postings(containers, source_url) ==
    IF containers = <<>> THEN <<>>
    ELSE (IF Head(containers).title # None
          THEN <<posting_of_container(Head(containers), source_url)>> ELSE <<>>)
         \o extract_job_postings(Tail(containers), source_url)

----------------------------------------------------------------------------
(* The posting each adapter, and extract_job_postings, builds from a title *)
(* and a description of any length                                         *)

Parsers == AdapterNames \cup {"extract_job_postings"}

TextOfLength(n) == [i \in 1..n |-> "x"]

\* Titles and descriptions: short, of the length of the limit, and longer
GivenTitles == {TextOfLength(n) : n \in {3, DescricaoLimit, DescricaoLimit + 1}}

GivenTexts == {TextOfLength(n) : n \in {0, 3, DescricaoLimit, DescricaoLimit + 1}}

PageLink == <<"/", "j", "o", "b", "s">>

\* The posting the parser builds from the provider's item
built_by(name, title, description) ==
    IF name = "extract_job_postings"
    THEN Some(extract_job_postings(<<Container(Some(title), description)>>, PageLink)[1])
    ELSE IF name = "search_remoteok_jobs"
    THEN parse_remoteok_job(ItemOf(name, title, JString(description), PageLink))
    ELSE IF name = "search_getninja"
    THEN parse_getninja_project(ItemOf(name, title, JString(description), PageLink))
    ELSE IF name = "search_gupy_jobs_api"
    THEN parse_gupy_api_job(ItemOf(name, title, JString(description), PageLink))
    ELSE IF name = "search_rss_feeds"
    THEN parse_rss_entry(ItemOf(name, title, JString(description), PageLink))
    ELSE IF name = "search_infojobs"
    THEN parse_infojobs_job(ItemOf(name, title, JString(description), PageLink))
    ELSE IF name = "search_jobs_adzuna"
    THEN Some(parse_adzuna_job(ItemOf(name, title, JString(description), PageLink))[2])
    ELSE Some(parse_github_job(ItemOf(name, title, JString(description), PageLink))[2])

InitParse ==
    /\ parser \in Parsers
    /\ item_title \in GivenTitles
    /\ item_text \in GivenTexts
    /\ built_job = None
    /\ ppc = "parse"
    /\ IdleBesidesParse

BuildPosting ==
    /\ ppc = "parse"
    /\ built_job' = built_by(parser, item_title, item_text)
    /\ ppc' = "done"
    /\ UNCHANGED <<parser, item_title, item_text, varsBesidesParse>>

NextParse == BuildPosting

SpecParse == InitParse /\ [][NextParse]_vars

\* C27: every JobPosting a source adapter or extract_job_postings produces has
\* a descricao of at most 500 characters, whatever the length of the provider's
\* description, summary or title; only requisitos is unbounded.
C27_DescricaoAtMost500 ==
    (ppc = "done" /\ built_job # None) =>
        /\ Len(built_job[1].descricao) <= DescricaoLimit
        /\ built_job[1].requisitos = item_text

\* What holds: the limit is kept by the adapters, but for an RSS entry without
\* a summary, whose descricao is its title; extract_job_postings keeps the text
\* of the description element as it is
C27_DescricaoLimitOfAdapters ==
    (ppc = "done" /\ built_job # None) =>
        /\ built_job[1].requisitos = item_text
        /\ parser = "extract_job_postings" => built_job[1].descricao = item_text
        /\ (parser = "search_rss_feeds" /\ item_text = <<>>)
              => built_job[1].descricao = item_title
        /\ (/\ parser # "extract_job_postings"
            /\ ~(parser = "search_rss_feeds" /\ item_text = <<>>))
              => built_job[1].descricao = first_n(item_text, DescricaoLimit)

----------------------------------------------------------------------------
(* _detect_senioridade of each module of src/crawler *)

Detectors ==
    {"remoteok_api", "infojobs_scraper", "rss_feeds", "getninja_api", "adzuna",
     "github_jobs", "gupy_scraper", "gupy_dynamic", "playwright_scraper", "scraper"}

\* The words of the first test
SeniorWords(module) ==
    {<<"s", "e", "n", "i", "o", "r">>, <<"s", "t", "a", "f", "f">>, <<"l", "e", "a", "d">>, <<"p", "r", "i", "n", "c", "i", "p", "a", "l">>}
    \cup (IF module \in {"remoteok_api", "adzuna", "github_jobs", "gupy_dynamic"}
          THEN {<<"s", "r", ".">>} ELSE {})
    \cup (IF module = "getninja_api" THEN {<<"e", "x", "p", "e", "r", "t">>} ELSE {})

\* The words of the second test
PlenoWords(module) ==
    IF module \in {"adzuna", "gupy_dynamic"}
    THEN {<<"m", "i", "d", "-", "l", "e", "v", "e", "l">>, <<"p", "l", "e", "n", "o">>, <<"m", "i", "d">>, <<"i", "n", "t", "e", "r", "m", "e", "d", "i", "a", "t", "e">>}
    ELSE IF module = "remoteok_api"
    THEN {<<"m", "i", "d", "-", "l", "e", "v", "e", "l">>, <<"p", "l", "e", "n", "o">>, <<"m", "i", "d">>, <<"i", "n", "t", "e", "r", "m", "e", "d", "i", "a", "t", "e">>, <<"m", "i", "d", "-", "s", "e", "n", "i", "o", "r">>}
    ELSE IF module = "getninja_api"
    THEN {<<"m", "i", "d">>, <<"p", "l", "e", "n", "o">>, <<"i", "n", "t", "e", "r", "m", "e", "d", "i", "a", "t", "e">>, <<"e", "x", "p", "e", "r", "i", "e", "n", "t", "e">>}
    ELSE IF module \in {"github_jobs", "gupy_scraper"}
    THEN {<<"m", "i", "d", "-", "l", "e", "v", "e", "l">>, <<"i", "n", "t", "e", "r", "m", "e", "d", "i", "a", "t", "e">>, <<"p", "l", "e", "n", "o">>}
    ELSE IF module = "scraper"
    THEN {<<"m", "i", "d", "-", "l", "e", "v", "e", "l">>, <<"p", "l", "e", "n", "o">>, <<"m", "i", "d">>}
    ELSE {<<"m", "i", "d">>, <<"p", "l", "e", "n", "o">>, <<"i", "n", "t", "e", "r", "m", "e", "d", "i", "a", "t", "e">>}

\* The words of the third test
JuniorWords(module) ==
    {<<"j", "u", "n", "i", "o", "r">>, <<"e", "n", "t", "r", "y">>, <<"t", "r", "a", "i", "n", "e", "e">>}
    \cup (IF module \in {"remoteok_api", "adzuna", "github_jobs", "gupy_dynamic"}
          THEN {<<"j", "r", ".">>} ELSE {})
    \cup (IF module \in {"remoteok_api", "adzuna", "gupy_dynamic"}
          THEN {<<"e", "s", "t", "a", "g", "i", "a", "r", "i", "o">>} ELSE {})
    \cup (IF module = "remoteok_api" THEN {<<"e", "n", "t", "r", "y", "-", "l", "e", "v", "e", "l">>} ELSE {})
    \cup (IF module = "getninja_api" THEN {<<"i", "n", "i", "c", "i", "a", "n", "t", "e">>} ELSE {})

\* What the function returns when no test passes
default_senioridade(module) == IF module = "scraper" THEN None ELSE Some("Pleno")

\* any(word in text_lower for word in words)
any_word_in(words, text_lower) == \E word \in words : contains(text_lower, word)

\* The tests in the order junior, pleno, senior
detect_senioridade_junior_first(module, text) ==
    IF any_word_in(JuniorWords(module), lower(text)) THEN Some("Junior")
    ELSE IF any_word_in(PlenoWords(module), lower(text)) THEN Some("Pleno")
    ELSE IF any_word_in(SeniorWords(module), lower(text)) THEN Some("Senior")
    ELSE default_senioridade(module)

\* _detect_senioridade(text) of the module
detect_senioridade(module, text) ==
    IF any_word_in(SeniorWords(module), lower(text)) THEN Some("Senior")
    ELSE IF any_word_in(PlenoWords(module), lower(text)) THEN Some("Pleno")
    ELSE IF any_word_in(JuniorWords(module), lower(text)) THEN Some("Junior")
    ELSE default_senioridade(module)

DetectTexts ==
    {<<>>, <<"C", "o", "o", "k">>, <<"S", "e", "n", "i", "o", "r", ",", " ", "P", "l", "e", "n", "o", " ", "o", "r", " ", "J", "u", "n", "i", "o", "r">>, <<"P", "l", "e", "n", "o", "/", "J", "u", "n", "i", "o", "r">>, <<"J", "u", "n", "i", "o", "r", " ", "d", "e", "v">>,
     <<"M", "i", "d", "-", "S", "e", "n", "i", "o", "r", " ", "l", "e", "v", "e", "l">>, <<"T", "e", "c", "h", " ", "L", "e", "a", "d">>, <<"S", "r", ".", " ", "E", "n", "g", "i", "n", "e", "e", "r">>, <<"J", "r", ".", " ", "a", "n", "a", "l", "y", "s", "t">>,
     <<"E", "x", "p", "e", "r", "t", ",", " ", "i", "n", "i", "c", "i", "a", "n", "t", "e">>, <<"E", "n", "t", "r", "y", "-", "l", "e", "v", "e", "l", " ", "t", "r", "a", "i", "n", "e", "e">>}

InitDetect ==
    /\ detector \in Detectors
    /\ detect_text \in DetectTexts
    /\ detected = None
    /\ dpc = "call"
    /\ IdleBesidesDetect

DetectSenioridade ==
    /\ dpc = "call"
    /\ detected' = detect_senioridade(detector, detect_text)
    /\ dpc' = "done"
    /\ UNCHANGED <<detector, detect_text, varsBesidesDetect>>

NextDetect == DetectSenioridade

SpecDetect == InitDetect /\ [][NextDetect]_vars

\* The text has one of the words, letter case aside
Indicates(words, text) == \E word \in words : FoldedIn(word, text)

\* C28: every adapter's seniority detector applies the precedence Senior, then
\* Pleno, then Junior: a text with a Senior-indicator yields Senior even if it
\* also has Pleno- or Junior-indicators, a text with a Pleno-indicator and no
\* Senior-indicator yields Pleno even if it has a Junior-indicator; when no
\* indicator occurs the detector returns the default Pleno; it never returns Lead.
C28_PrecedenceAndDefaultPleno ==
    dpc = "done" =>
        /\ Indicates(SeniorWords(detector), detect_text) => detected = Some("Senior")
        /\ (/\ ~Indicates(SeniorWords(detector), detect_text)
            /\ Indicates(PlenoWords(detector), detect_text))
              => detected = Some("Pleno")
        /\ (/\ ~Indicates(SeniorWords(detector), detect_text)
            /\ ~Indicates(PlenoWords(detector), detect_text)
            /\ ~Indicates(JuniorWords(detector), detect_text))
              => detected = Some("Pleno")
        /\ detected # Some("Lead")

\* C28, amended: the precedence holds for every detector and none returns Lead;
\* without an indicator the detectors of the adapters return Pleno and the one
\* of scraper.py returns None.
C28_PrecedenceAndDefaults ==
    dpc = "done" =>
        /\ Indicates(SeniorWords(detector), detect_text) => detected = Some("Senior")
        /\ (/\ ~Indicates(SeniorWords(detector), detect_text)
            /\ Indicates(PlenoWords(detector), detect_text))
              => detected = Some("Pleno")
        /\ (/\ ~Indicates(SeniorWords(detector), detect_text)
            /\ ~Indicates(PlenoWords(detector), detect_text)
            /\ Indicates(JuniorWords(detector), detect_text))
              => detected = Some("Junior")
        /\ (/\ ~Indicates(SeniorWords(detector), detect_text)
            /\ ~Indicates(PlenoWords(detector), detect_text)
            /\ ~Indicates(JuniorWords(detector), detect_text))
              => detected = IF detector = "scraper" THEN None ELSE Some("Pleno")
        /\ detected # Some("Lead")

\* A text with indicators of the three levels: Senior
C28_Witness ==
    /\ dpc = "done"
    /\ Indicates(SeniorWords(detector), detect_text)
    /\ Indicates(PlenoWords(detector), detect_text)
    /\ Indicates(JuniorWords(detector), detect_text)
    /\ detected = Some("Senior")

----------------------------------------------------------------------------
\* Runs of run_crawler on a store that starts missing or empty (main.py,
\* jobs_manager.py): a batch may repeat a link

MaxFetched == 2     \* most postings one run fetches in the runs from an empty store

\* No data/jobs.json, a file of zero bytes (json.load cannot parse it), or
\* the file save_jobs writes for an empty list
EmptyStores == {NoFile, Unparseable, save_jobs(<<>>)}

InitRuns ==
    /\ file \in EmptyStores
    /\ IdleMerge
    /\ IdleRoundTrip
    /\ IdleCrawler
    /\ IdleScorer
    /\ IdleAdapter
    /\ IdleAggregator
    /\ IdleRest

NextRuns ==
    \/ RunCrawlerNoCompanies
    \/ \E crawled \in CrawledLists(MaxFetched) : RunCrawler(crawled)

SpecRuns == InitRuns /\ [][NextRuns]_vars

\* The links of the records in the store file, in file order
PersistedLinks ==
    IF file = NoFile \/ file = Unparseable \/ file[2][1] # "array" THEN <<>>
    ELSE [i \in 1..Len(file[2][2]) |-> file[2][2][i][2].link]

\* C29: from a missing or empty store file, after any sequence of run_crawler
\* runs no two postings of the persisted store share a link, even when one
\* fetched batch holds several postings with the same link.
C29_PersistedLinksDistinct ==
    \A i, j \in 1..Len(PersistedLinks) :
        PersistedLinks[i] = PersistedLinks[j] => i = j

\* A run fetched two different postings with one link and the store holds
\* that link once
C29_Witness ==
    /\ outcome = "returned"
    /\ Len(all_jobs) = 2
    /\ all_jobs[1] # all_jobs[2]
    /\ all_jobs[1].link = all_jobs[2].link
    /\ new_count = 1
    /\ Cardinality({i \in 1..Len(PersistedLinks) :
                      PersistedLinks[i] = JString(all_jobs[1].link)}) = 1

----------------------------------------------------------------------------
(* src/crawler/main.py: one run of run_crawler over the companies of the   *)
(* list, each crawled by crawl_company through the candidate URLs of       *)
(* detect_careers_page (src/crawler/companies.py)                          *)

MaxListed == 2      \* most containers a careers page lists

\* The parts urlparse finds in the company URLs of the model
ParsedUrls == [scheme : {"https"}, netloc : {"acme.com"}, path : {"", "/br"}]

\* f"{parsed.scheme}://{parsed.netloc}{parsed.path}"
geturl(parsed) == parsed.scheme \o "://" \o parsed.netloc \o parsed.path

urlparse(url) == CHOOSE parsed \in ParsedUrls : geturl(parsed) = url

\* The entries parse_remote_jobs_brazil_repo builds: no two with one url
Companies ==
    {[name |-> "Acme", url |-> "https://acme.com"],
     [name |-> "Acme Brasil", url |-> "https://acme.com/br"]}

CompanyLists ==
    {list \in UNION {[1..k -> Companies] : k \in 0..Cardinality(Companies)} :
        \A i, j \in 1..Len(list) : list[i].url = list[j].url => i = j}

detect_careers_page(company_url) ==
    LET parsed == urlparse(company_url)
        domain == parsed.netloc
        base == parsed.scheme \o "://" \o domain
    IN  <<base \o "/careers",
          base \o "/carreiras",
          base \o "/vagas",
          base \o "/jobs",
          base \o "/trabalhe-conosco",
          base \o "/joinus",
          "https://careers." \o domain,
          "https://jobs." \o domain,
          company_url \o "/careers",
          company_url \o "/carreiras",
          company_url \o "/vagas">>

\* The containers of the pages: one with a title and a description element,
\* one without a title element
ListedContainers ==
    {Container(Some(<<"D", "e", "v">>), <<"S", "e", "n", "i", "o", "r", " ", "P", "y", "t", "h", "o", "n">>), Container(None, <<>>)}

\* What a request for a page produces: its containers, or the RuntimeError of
\* _fetch_with_requests
Pages ==
    {Raised("RuntimeError")}
    \cup {Returned(list) :
            list \in UNION {[1..k -> ListedContainers] : k \in 0..MaxListed}}

\* The URLs that some server may answer; a request for any other URL fails
AnsweringUrls ==
    {"https://acme.com/careers", "https://acme.com/vagas", "https://acme.com/br/careers"}

Webs == [AnsweringUrls -> Pages]

fetch_page_async(url, pages) ==
    IF url \in DOMAIN pages THEN pages[url] ELSE Raised("RuntimeError")

KnownSkills ==
    <<<<"P", "y", "t", "h", "o", "n">>, <<"J", "a", "v", "a", "S", "c", "r", "i", "p", "t">>, <<"T", "y", "p", "e", "S", "c", "r", "i", "p", "t">>, <<"J", "a", "v", "a">>, <<"C", "#">>, <<"P", "H", "P">>,
      <<"D", "j", "a", "n", "g", "o">>, <<"F", "a", "s", "t", "A", "P", "I">>, <<"F", "l", "a", "s", "k">>, <<"N", "o", "d", "e", ".", "j", "s">>, <<"R", "e", "a", "c", "t">>, <<"V", "u", "e">>,
      <<"A", "W", "S">>, <<"D", "o", "c", "k", "e", "r">>, <<"K", "u", "b", "e", "r", "n", "e", "t", "e", "s">>, <<"P", "o", "s", "t", "g", "r", "e", "S", "Q", "L">>, <<"M", "o", "n", "g", "o", "D", "B">>,
      <<"G", "i", "t">>, <<"R", "E", "S", "T", " ", "A", "P", "I">>, <<"G", "r", "a", "p", "h", "Q", "L">>, <<"S", "Q", "L">>, <<"L", "i", "n", "u", "x">>,
      <<"G", "o">>, <<"R", "u", "s", "t">>, <<"R", "u", "b", "y">>, <<"R", "a", "i", "l", "s">>, <<"L", "a", "r", "a", "v", "e", "l">>>>

\* [skill for skill in known_skills if skill.lower() in text.lower()]
extract_skills_from_text(text) ==
    SelectSeq(KnownSkills, LAMBDA skill : contains(lower(text), lower(skill)))

\* date.today().isoformat() on the day of the run
Today == "2026-01-01"

\* The JobPosting extract_job_postings builds, with the fields that do not
\* come from the container; uuid4 gives an id no other posting has, here the
\* company's place in the run and the posting's place on the page
scraped_posting(job, company, nth, k) ==
    [id                |-> <<"uuid4", nth, k>>,
     empresa           |-> company.name,
     titulo            |-> job.titulo,
     descricao         |-> job.descricao,
     requisitos        |-> job.requisitos,
     skills_detectadas |-> extract_skills_from_text(job.descricao),
     senioridade       |-> detect_senioridade("scraper", job.descricao),
     localizacao       |-> "Remoto - Brasil",
     link              |-> job.link,
     data_coleta       |-> Today,
     ats               |-> None,
     url_empresa       |-> company.url,
     salario_min       |-> None,
     salario_max       |-> None]

\* extract_job_postings(html, company_name, base_url, career_url) on a page
\* that answered
extracted_from(page, company, nth, career_url) ==
    LET list == extract_job_postings(page, career_url)
    IN  [k \in 1..Len(list) |-> scraped_posting(list[k], company, nth, k)]

\* The loop of crawl_company without its `break`: the postings of every
\* candidate URL
RECURSIVE try_every_url(_, _, _, _, _)
try_every_url(possible_urls, i, company, nth, pages) ==
    IF i > Len(possible_urls) THEN <<>>
    ELSE LET html == fetch_page_async(possible_urls[i], pages) IN
         (IF html[1] = "raised" THEN <<>>
          ELSE extracted_from(html[2], company, nth, possible_urls[i]))
         \o try_every_url(possible_urls, i + 1, company, nth, pages)

\* for career_url in possible_urls, from the i-th candidate on: a failed
\* fetch and a page without postings go on to the next candidate, the first
\* page with postings ends the loop
RECURSIVE try_urls(_, _, _, _, _)
try_urls(possible_urls, i, company, nth, pages) ==
    IF i > Len(possible_urls) THEN <<>>
    ELSE LET html == fetch_page_async(possible_urls[i], pages) IN
         IF html[1] = "raised"
         THEN try_urls(possible_urls, i + 1, company, nth, pages)
         ELSE LET extracted == extracted_from(html[2], company, nth, possible_urls[i])
              IN  IF extracted # <<>> THEN extracted
                  ELSE try_urls(possible_urls, i + 1, company, nth, pages)

\* crawl_company that goes on after a page with postings.
crawl_company_every_url(company, nth, pages) ==
    try_every_url(detect_careers_page(company.url), 1, company, nth, pages)

\* crawl_company(company), the nth call of the run
crawl_company(company, nth, pages) ==
    try_urls(detect_careers_page(company.url), 1, company, nth, pages)

\* all_jobs after the loop over the lists crawl_company returned
RECURSIVE extend_all(_)
extend_all(lists) ==
    IF lists = <<>> THEN <<>> ELSE Head(lists) \o extend_all(Tail(lists))

\* The store before the run: no file, an empty list, or the posting an
\* earlier run found on a careers page
CrawlStores ==
    {NoFile, save_jobs(<<>>)}
    \cup {save_jobs(extracted_from(<<Container(Some(<<"Q", "A">>), <<>>)>>,
                                   [name |-> "Acme", url |-> "https://acme.com"],
                                   0, url)) : url \in AnsweringUrls}

InitCrawl ==
    /\ file \in CrawlStores
    /\ companies \in CompanyLists
    /\ web \in Webs
    /\ company_jobs = <<>>
    /\ cpc = "crawl"
    /\ IdleCrawler
    /\ IdleBesidesCrawl

\* run_crawler: the companies of the list are crawled in order, then the
\* store is loaded, merged with all_jobs and saved
CrawlCompanies ==
    /\ cpc = "crawl"
    /\ \E found_jobs \in {[c \in 1..Len(companies) |->
                              crawl_company(companies[c], c, web)]} :
       \E after \in {run_crawler(file, extend_all(found_jobs))} :
         /\ company_jobs' = found_jobs
         /\ file' = after.file
         /\ all_jobs' = after.all_jobs
         /\ existing_jobs' = after.existing_jobs
         /\ new_count' = after.new_count
         /\ outcome' = after.outcome
    /\ cpc' = "done"
    /\ UNCHANGED <<companies, web, varsBesidesCrawl>>

NextCrawl == CrawlCompanies

SpecCrawl == InitCrawl /\ [][NextCrawl]_vars

\* The number of postings the page at the url yields: its containers with a
\* title element, none when the request fails
YieldOf(url) ==
    IF url \notin DOMAIN web \/ web[url][1] = "raised" THEN 0
    ELSE Cardinality({k \in 1..Len(web[url][2]) : web[url][2][k].title # None})

\* The records of the store file after the run
StoredAfter ==
    IF file = NoFile THEN <<>>
    ELSE [i \in 1..Len(file[2][2]) |-> file[2][2][i][2]]

\* C30: one run of run_crawler adds at most one new posting per crawled
\* company to the store, however many postings a careers page lists:
\* crawl_company returns the postings of at most one candidate URL, the first
\* in candidate order whose page yields a posting; all of them carry the page
\* URL as their link; and the merge admits only the first posting of each link.
C30_AtMostOneNewPerCompany ==
    cpc = "done" =>
        /\ outcome = "returned"
        /\ new_count <= Len(companies)
        /\ \A c \in 1..Len(companies) :
             LET urls == detect_careers_page(companies[c].url)
                 yielding == {i \in 1..Len(urls) : YieldOf(urls[i]) > 0}
             IN  IF yielding = {} THEN company_jobs[c] = <<>>
                 ELSE \E first \in yielding :
                        /\ \A i \in yielding : first <= i
                        /\ Len(company_jobs[c]) = YieldOf(urls[first])
                        /\ \A k \in 1..Len(company_jobs[c]) :
                             company_jobs[c][k].link = urls[first]
        /\ Len(StoredAfter) = Len(existing_jobs) + new_count
        /\ \A s \in (Len(existing_jobs) + 1)..Len(StoredAfter) :
             \E i \in 1..Len(all_jobs) :
               /\ StoredAfter[s] = job_to_dict(all_jobs[i])
               /\ \A j \in 1..(i - 1) : all_jobs[j].link # all_jobs[i].link
               /\ \A e \in 1..Len(existing_jobs) :
                    existing_jobs[e].link # all_jobs[i].link
        /\ \A s, t \in 1..Len(StoredAfter) :
             StoredAfter[s].link = StoredAfter[t].link => s = t

\* A company whose first candidate answers without a posting and whose third
\* lists two: both are returned with the link of the third, one is added
C30_Witness ==
    /\ cpc = "done"
    /\ Len(companies) = 1
    /\ YieldOf("https://acme.com/careers") = 0
    /\ "https://acme.com/careers" \in DOMAIN web
    /\ web["https://acme.com/careers"][1] = "returned"
    /\ Len(company_jobs[1]) = 2
    /\ company_jobs[1][1].link = "https://acme.com/vagas"
    /\ company_jobs[1][2].link = "https://acme.com/vagas"
    /\ new_count = 1

====
